---- MODULE Spec2Model ----
(***************************************************************************)
(* signalk-whatif-helper: the write-intercept registry (PutHandlerManager), *)
(* the value injector and path registry (PathManager) and the routes that   *)
(* drive them, as a state machine.  The host (SignalK server) is modelled   *)
(* at its interface: the PUT-handler table, the change bus and the tree.    *)
(***************************************************************************)
EXTENDS Integers, Sequences, FiniteSets, TLC

\* ------------------------------------------------------------------ bounds
MaxInstalls == 2      \* installs the host accepts in one run
MaxTime     == 1      \* clock ticks in one run
MaxCalls    == 2      \* setValue calls in one run
MaxCreates  == 1      \* of which as many, the first ones, may come from POST /paths
MaxClients  == 2      \* connections the WebSocket server accepts in one run
MaxEvents   == 1      \* change events the self bus emits to the listener in one run
MaxMsgs     == 2      \* messages the observers send in one run

\* --------------------------------------------------------------- constants
SOURCE_LABEL == "whatif-helper"
Dot          == "."
Undefined    == "undefined"

Paths    == {"nav.sog", "tanks.fuel"}
ListPaths == {"env.tMax", "env.temp", "nav.sog"}   \* a tree to enumerate
BadPath  == "nav..sog"            \* a path the POST /paths pattern rejects
Values   == {"v1", "v2"}
Null     == "null"                \* the JSON value null
N2K      == "n2k-01"

\* A source label is a sequence of chunks: "." , "whatif-helper", or another
\* piece of text that holds neither.  <<>> is the empty string.
whatifSuffix == <<Dot, SOURCE_LABEL>>
BareLabel    == <<SOURCE_LABEL>>

\* Labels other providers write into the tree.
ExternalLabels ==
  { <<N2K>>,
    <<N2K, Dot, SOURCE_LABEL>>,
    <<N2K, Dot, SOURCE_LABEL, Dot, SOURCE_LABEL>>,
    <<SOURCE_LABEL>>,
    <<Dot, SOURCE_LABEL>> }

\* The source argument of setValue: absent (undefined) or a string.
NoSource == [given |-> FALSE, text |-> <<>>]
ExplicitSources ==
  { NoSource } \cup
  { [given |-> TRUE, text |-> t] : t \in {<<>>, <<N2K>>, <<N2K, Dot, SOURCE_LABEL>>} }

AcceptOptions == {"true", "false", "omitted"}   \* options.acceptAllSources

NoMeta  == [given |-> FALSE, kv |-> {}]
Metas   == { NoMeta, [given |-> TRUE, kv |-> {<<"units", "ratio">>}] }

\* Metadata other providers put into the tree.
TreeMetas == { {<<"units", "m/s">>, <<"description", "speed">>}, {<<"units", "ratio">>} }

VARIABLES
  handlers,             \* PutHandlerManager.handlers (Map, insertion order)
  unregisterFunctions,  \* PutHandlerManager.unregisterFunctions (Map)
  createdPaths,         \* PathManager.createdPaths (Map)
  selfContext,          \* PathManager.selfContext
  hostPut,              \* host: interceptors installed and not deregistered
  nextId,               \* host: installs made so far
  unregLog,             \* host: capabilities invoked, in order
  now,                  \* clock read by new Date()
  tree,                 \* host: the data tree, per path
  treeMeta,             \* host: metadata the tree holds per path
  bus,                  \* host: deltas handleMessage took, not yet in the tree
  timers,               \* pending setTimeout read-backs
  calls,                \* number of setValue calls made so far
  appliedCall,          \* per path: the latest setValue call the tree has applied
  writer,               \* per path: what wrote the label the tree holds
  last,                 \* the operation that ran last and what it gave back
  createdBy,            \* per path: the latest createPath call that resolved
  wss,                  \* WebSocketServer.wss
  clients,              \* WebSocketServer.clients (ids of the WhatIfClient objects)
  clientIdCounter,      \* WebSocketServer.clientIdCounter
  subscriptions,        \* per client id: WhatIfClient.subscriptions
  deltaUnsubscribe,     \* WebSocketServer.deltaUnsubscribe
  upgradeHandler,       \* WebSocketServer.upgradeHandler
  sockets,              \* host: per client id, the socket's readyState and what it delivered
  feed,                 \* host: the self bus calls the listener of subscribeToDeltaStream
  pendingFull,          \* sendCurrentValues calls suspended in the HTTP fetch
  events,               \* change events the self bus has emitted so far
  stopped,              \* plugin.stop has run
  notes,                \* host: the 'notes' resources, per id
  pendingOp             \* an updateScenario / deleteScenario between its read and its store call

wsVars == <<wss, clients, clientIdCounter, subscriptions, deltaUnsubscribe,
            upgradeHandler, sockets, feed, pendingFull, events, stopped>>

resVars == <<notes, pendingOp>>

vars == <<handlers, unregisterFunctions, createdPaths, selfContext, hostPut,
          nextId, unregLog, now, tree, treeMeta, bus, timers, calls,
          appliedCall, writer, last, createdBy, wsVars, resVars>>

\* ------------------------------------------------------------- JS Map
MapHas(m, k)     == \E i \in 1..Len(m) : m[i].key = k
MapIndex(m, k)   == CHOOSE i \in 1..Len(m) : m[i].key = k
MapVal(m, k)     == m[MapIndex(m, k)].val
MapGetOr(m, k, d) == IF MapHas(m, k) THEN MapVal(m, k) ELSE d
MapSet(m, k, v)  ==
  IF MapHas(m, k)
    THEN [i \in 1..Len(m) |-> IF m[i].key = k THEN [key |-> k, val |-> v] ELSE m[i]]
    ELSE Append(m, [key |-> k, val |-> v])
MapDelete(m, k)  == SelectSeq(m, LAMBDA e : e.key # k)
MapKeys(m)       == { m[i].key : i \in 1..Len(m) }

\* ------------------------------------------------------------- strings
EndsWith(s, suf) ==
  /\ Len(s) >= Len(suf)
  /\ SubSeq(s, Len(s) - Len(suf) + 1, Len(s)) = suf
DropLast(s, n) == SubSeq(s, 1, Len(s) - n)

\* ------------------------------------------------- host: PUT-handler table
VesselsSelf == <<"vessels", "self">>

\* app.registerPutHandler(context, path, handler, source): installs the
\* handler and returns the capability that removes this very installation.
registerPutHandler(st, context, path, source) ==
  [st EXCEPT !.nextId  = @ + 1,
             !.hostPut = @ \cup {[id |-> st.nextId + 1, context |-> context,
                                  path |-> path, source |-> source]}]

\* Calling the function registerPutHandler returned.
InvokeCapability(st, cap) ==
  [st EXCEPT !.hostPut  = {h \in @ : h.id # cap},
             !.unregLog = Append(@, cap)]

\* ------------------------------------------------------ PutHandlerManager
\* The manager's fields together with the host table they act on.
Mgr == [handlers |-> handlers, unregisterFunctions |-> unregisterFunctions,
        hostPut |-> hostPut, nextId |-> nextId, unregLog |-> unregLog]

\* registerHandler without the "already registered" early return.
registerHandlerNoGuard(st, path, accept, hostOk, t) ==
  IF ~hostOk
    THEN [st |-> st, threw |-> TRUE]
    ELSE LET h == registerPutHandler(st, VesselsSelf, path,
                     IF accept = "true" THEN Undefined ELSE SOURCE_LABEL)
             info == [path |-> path, registeredAt |-> t,
                      acceptAllSources |-> (accept = "true")]
         IN [st |-> [h EXCEPT !.handlers = MapSet(@, path, info),
                              !.unregisterFunctions = MapSet(@, path, h.nextId)],
             threw |-> FALSE]

\* registerHandler that refreshes the stored record of a registered path.
registerHandlerRefresh(st, path, accept, hostOk, t) ==
  IF MapHas(st.handlers, path)
    THEN [st |-> [st EXCEPT !.handlers =
                    MapSet(@, path, [path |-> path, registeredAt |-> t,
                                     acceptAllSources |-> (accept = "true")])],
          threw |-> FALSE]
    ELSE registerHandlerNoGuard(st, path, accept, hostOk, t)

\* registerHandler that installs under the context of the injected deltas.
registerHandlerOwnContext(st, path, accept, hostOk, t) ==
  IF MapHas(st.handlers, path)
    THEN [st |-> st, threw |-> FALSE]
    ELSE IF ~hostOk
      THEN [st |-> st, threw |-> TRUE]
      ELSE LET h == registerPutHandler(st, selfContext, path,
                       IF accept = "true" THEN Undefined ELSE SOURCE_LABEL)
               info == [path |-> path, registeredAt |-> t,
                        acceptAllSources |-> (accept = "true")]
           IN [st |-> [h EXCEPT !.handlers = MapSet(@, path, info),
                                !.unregisterFunctions = MapSet(@, path, h.nextId)],
               threw |-> FALSE]

\* registerHandler that always installs the reserved label as source filter.
registerHandlerAlwaysFiltered(st, path, accept, hostOk, t) ==
  IF MapHas(st.handlers, path)
    THEN [st |-> st, threw |-> FALSE]
    ELSE IF ~hostOk
      THEN [st |-> st, threw |-> TRUE]
      ELSE LET h == registerPutHandler(st, VesselsSelf, path, SOURCE_LABEL)
               info == [path |-> path, registeredAt |-> t,
                        acceptAllSources |-> (accept = "true")]
           IN [st |-> [h EXCEPT !.handlers = MapSet(@, path, info),
                                !.unregisterFunctions = MapSet(@, path, h.nextId)],
               threw |-> FALSE]

\* registerHandler that stores the record and forgets the capability.
registerHandlerRecordOnly(st, path, accept, hostOk, t) ==
  IF MapHas(st.handlers, path)
    THEN [st |-> st, threw |-> FALSE]
    ELSE IF ~hostOk
      THEN [st |-> st, threw |-> TRUE]
      ELSE LET h == registerPutHandler(st, VesselsSelf, path,
                       IF accept = "true" THEN Undefined ELSE SOURCE_LABEL)
               info == [path |-> path, registeredAt |-> t,
                        acceptAllSources |-> (accept = "true")]
           IN [st |-> [h EXCEPT !.handlers = MapSet(@, path, info)],
               threw |-> FALSE]

\* registerHandler that stores the record before it asks the host.
registerHandlerStoreFirst(st, path, accept, hostOk, t) ==
  LET info == [path |-> path, registeredAt |-> t,
               acceptAllSources |-> (accept = "true")]
  IN IF MapHas(st.handlers, path)
       THEN [st |-> st, threw |-> FALSE]
       ELSE IF ~hostOk
         THEN [st |-> [st EXCEPT !.handlers = MapSet(@, path, info)], threw |-> TRUE]
         ELSE LET h == registerPutHandler(st, VesselsSelf, path,
                          IF accept = "true" THEN Undefined ELSE SOURCE_LABEL)
              IN [st |-> [h EXCEPT !.handlers = MapSet(@, path, info),
                                   !.unregisterFunctions = MapSet(@, path, h.nextId)],
                  threw |-> FALSE]

\* registerHandler(path, options) at time t; hostOk: the host's install
\* does not raise.  Gives the new state and whether the call threw.
registerHandler(st, path, accept, hostOk, t) ==
  IF MapHas(st.handlers, path)
    THEN [st |-> st, threw |-> FALSE]
    ELSE IF ~hostOk
      THEN [st |-> st, threw |-> TRUE]
      ELSE LET h == registerPutHandler(st, VesselsSelf, path,
                       IF accept = "true" THEN Undefined ELSE SOURCE_LABEL)
               info == [path |-> path, registeredAt |-> t,
                        acceptAllSources |-> (accept = "true")]
           IN [st |-> [h EXCEPT !.handlers = MapSet(@, path, info),
                                !.unregisterFunctions = MapSet(@, path, h.nextId)],
               threw |-> FALSE]

\* unregisterHandler that answers true for a path it does not know.
unregisterHandlerLenient(st, path) ==
  LET cap == MapGetOr(st.unregisterFunctions, path, 0)
  IN IF cap = 0
       THEN [st |-> [st EXCEPT !.handlers = MapDelete(@, path)], ret |-> TRUE]
       ELSE [st |-> [InvokeCapability(st, cap) EXCEPT
                       !.handlers = MapDelete(@, path),
                       !.unregisterFunctions = MapDelete(@, path)],
             ret |-> TRUE]

\* unregisterHandler that forgets the path without calling the capability.
unregisterHandlerNoCall(st, path) ==
  LET cap == MapGetOr(st.unregisterFunctions, path, 0)
  IN IF cap = 0
       THEN [st |-> st, ret |-> FALSE]
       ELSE [st |-> [st EXCEPT !.handlers = MapDelete(@, path),
                               !.unregisterFunctions = MapDelete(@, path)],
             ret |-> TRUE]

\* unregisterHandler that leaves the record of the path in handlers.
unregisterHandlerKeepRecord(st, path) ==
  LET cap == MapGetOr(st.unregisterFunctions, path, 0)
  IN IF cap = 0
       THEN [st |-> st, ret |-> FALSE]
       ELSE [st |-> [InvokeCapability(st, cap) EXCEPT
                       !.unregisterFunctions = MapDelete(@, path)],
             ret |-> TRUE]

\* unregisterHandler(path): the new state and the boolean it returns.
unregisterHandler(st, path) ==
  LET cap == MapGetOr(st.unregisterFunctions, path, 0)
  IN IF cap = 0
       THEN [st |-> st, ret |-> FALSE]
       ELSE [st |-> [InvokeCapability(st, cap) EXCEPT
                       !.handlers = MapDelete(@, path),
                       !.unregisterFunctions = MapDelete(@, path)],
             ret |-> TRUE]

\* The for-of loop of unregisterAll over the live key iterator of handlers:
\* pos is the iterator's place; an entry deleted at pos moves the next one
\* into that place.
RECURSIVE unregisterAllFrom(_, _)
unregisterAllFrom(st, pos) ==
  IF pos > Len(st.handlers)
    THEN st
    ELSE LET path == st.handlers[pos].key
             r    == unregisterHandler(st, path)
         IN unregisterAllFrom(r.st,
              IF MapHas(r.st.handlers, path) THEN pos + 1 ELSE pos)

\* The loop run over a counter that advances past the deleted entry.
RECURSIVE unregisterAllSkipping(_, _)
unregisterAllSkipping(st, pos) ==
  IF pos > Len(st.handlers)
    THEN st
    ELSE unregisterAllSkipping(unregisterHandler(st, st.handlers[pos].key).st,
                               pos + 1)

unregisterAllIndexed(st) == unregisterAllSkipping(st, 1)

unregisterAll(st) == unregisterAllFrom(st, 1)

getHandlers     == [i \in 1..Len(handlers) |-> handlers[i].val]
hasPutHandler(path) == MapHas(handlers, path)
\* getHandler(path): <<record>>, or <<>> for undefined.
getHandler(path) ==
  IF MapHas(handlers, path) THEN <<MapVal(handlers, path)>> ELSE <<>>

\* ------------------------------------------------------------ PathManager
\* initSelfContext: `vessels.${selfId}` when the host has a selfId.
SelfIds == {"", "urn:mrn:signalk:uuid:1"}
initSelfContext(selfId) ==
  IF selfId # "" THEN <<"vessels", selfId>> ELSE VesselsSelf

NoEntry == [present |-> FALSE, value |-> Undefined, dsource |-> <<>>, slabel |-> <<>>]

\* currentData.$source || currentData.source?.label
CurrentSource(data) == IF data.dsource # <<>> THEN data.dsource ELSE data.slabel

\* One pass of the strip loop only.
StripOnce(s) ==
  IF EndsWith(s, whatifSuffix) THEN DropLast(s, Len(whatifSuffix)) ELSE s

\* while (originalSource.endsWith(whatifSuffix)) originalSource = slice(...)
RECURSIVE StripSuffixes(_)
StripSuffixes(s) ==
  IF EndsWith(s, whatifSuffix)
    THEN StripSuffixes(DropLast(s, Len(whatifSuffix)))
    ELSE s

\* What setValue reads as the path's current source: <<>> when the read
\* raised, the tree has no entry, or the entry names no source.
ReadSource(path, readOk) ==
  IF readOk /\ tree[path].present THEN CurrentSource(tree[path]) ELSE <<>>

\* if (source): false for undefined and for the empty string.
Truthy(source) == source.given /\ source.text # <<>>

\* The label that suffixes whatever it is given, explicit or not.
SourceLabelAlwaysSuffix(source, orig) ==
  IF Truthy(source)
    THEN StripSuffixes(source.text) \o whatifSuffix
    ELSE IF orig # <<>> THEN StripSuffixes(orig) \o whatifSuffix ELSE BareLabel

\* The label built after a single strip instead of the loop.
SourceLabelStripOnce(source, orig) ==
  IF Truthy(source)
    THEN source.text
    ELSE IF orig # <<>> THEN StripOnce(orig) \o whatifSuffix ELSE BareLabel

\* The source label of setValue(path, value, source); orig is what the
\* read of the tree gave.
SourceLabel(source, orig) ==
  IF Truthy(source)
    THEN source.text
    ELSE IF orig # <<>> THEN StripSuffixes(orig) \o whatifSuffix ELSE BareLabel

\* The injector's view of the change bus.
Inj == [bus |-> bus, timers |-> timers, calls |-> calls]

\* A delta that is always addressed to 'vessels.self'.
ValuesDeltaToSelf(label, path, value, call) ==
  [context |-> VesselsSelf, source |-> label, timestamp |-> now,
   kind |-> "values", path |-> path, value |-> value, meta |-> {},
   call |-> call.n, origin |-> call.origin]

\* The delta setValue builds.  call and origin are not part of the delta:
\* they tag it with the setValue call that built it.
ValuesDelta(label, path, value, call) ==
  [context |-> selfContext, source |-> label, timestamp |-> now,
   kind |-> "values", path |-> path, value |-> value, meta |-> {},
   call |-> call.n, origin |-> call.origin]

MetaDelta(path, meta) ==
  [context |-> selfContext, source |-> BareLabel, timestamp |-> now,
   kind |-> "meta", path |-> path, value |-> Undefined, meta |-> meta.kv,
   call |-> 0, origin |-> "meta"]

\* app.handleMessage taking the delta at the head of the queue.
handleMessageFirst(b, delta) == <<delta>> \o b

\* app.handleMessage(PLUGIN_ID, delta): the bus takes deltas in call order.
handleMessage(b, delta) == Append(b, delta)

\* What a setValue call was given, read and built.  consulted: it read the
\* tree; prev: what had written the label it read; origin: how its label
\* came about ("explicit", "readFailed", "bare": no source found, "derived":
\* from the source read, "bareDerived": from a source that itself descends,
\* through such calls only, from "bare").
NoCall == [n |-> 0, path |-> "", explicit |-> NoSource, consulted |-> FALSE,
           readSrc |-> <<>>, prev |-> "", label |-> <<>>, submitted |-> FALSE,
           origin |-> ""]

\* setValue(path, value, source): an async function with no await before
\* handleMessage, so all of it runs within the call.  readOk: getSelfPath
\* does not raise; busOk: handleMessage does not raise.  rejected: the
\* promise it returns is rejected (an async function never throws).
setValue(inj, path, value, source, readOk, busOk) ==
  LET orig  == IF Truthy(source) THEN <<>> ELSE ReadSource(path, readOk)
      label == SourceLabel(source, orig)
      n     == inj.calls + 1
      call  == [n |-> n, path |-> path, explicit |-> source,
                consulted |-> ~Truthy(source),
                readSrc |-> orig,
                prev |-> IF Truthy(source) THEN "" ELSE writer[path],
                label |-> label, submitted |-> busOk,
                origin |-> IF Truthy(source) THEN "explicit"
                           ELSE IF ~readOk THEN "readFailed"
                           ELSE IF orig = <<>> THEN "bare"
                           ELSE IF writer[path] \in {"bare", "bareDerived"}
                             THEN "bareDerived"
                             ELSE "derived"]
  IN IF busOk
       THEN [inj |-> [bus    |-> handleMessage(inj.bus, ValuesDelta(label, path, value, call)),
                      timers |-> inj.timers + 1,
                      calls  |-> n],
             call |-> call, rejected |-> FALSE]
       ELSE [inj |-> [inj EXCEPT !.calls = n], call |-> call, rejected |-> TRUE]

\* createPath(path, value, meta); busFail names the handleMessage call that
\* raises ("none", "first", "second").
createPath(inj, created, path, value, meta, readOk, busFail) ==
  LET created1 == IF meta.given THEN MapSet(created, path, meta.kv) ELSE created
      r        == setValue(inj, path, value, NoSource, readOk, busFail # "first")
  IN IF r.rejected
       THEN [inj |-> r.inj, created |-> created1, call |-> r.call, rejected |-> TRUE]
       ELSE IF ~meta.given
         THEN [inj |-> r.inj, created |-> created1, call |-> r.call, rejected |-> FALSE]
         ELSE IF busFail = "second"
           THEN [inj |-> r.inj, created |-> created1, call |-> r.call, rejected |-> TRUE]
           ELSE [inj |-> [r.inj EXCEPT !.bus = handleMessage(@, MetaDelta(path, meta))],
                 created |-> created1, call |-> r.call, rejected |-> FALSE]

getCreatedPaths     == [i \in 1..Len(createdPaths) |-> createdPaths[i].key]
isCreatedPath(path) == MapHas(createdPaths, path)

\* A merge that keeps the new metadata only.
MergeMetaReplace(old, new) == new

\* Metadata merged key by key, the keys of new winning: {...old, ...new}
MergeMeta(old, new) ==
  {kv \in old : ~\E n \in new : n[1] = kv[1]} \cup new

\* What app.getSelfPath gives for `base` (leaf "") or `base.leaf`: undefined,
\* null, a bare value, or an object with or without a value key.
UndefinedDatum == [kind |-> "undefined", hasValue |-> FALSE, value |-> Undefined,
                   source |-> <<>>, kv |-> {}]
ObjectValue == "[object]"       \* a value that is the node object itself
Leaves == {"", "value", "meta"}

getSelfPath(base, leaf) ==
  CASE leaf = "" ->
         IF tree[base].present
           THEN [kind |-> "object", hasValue |-> TRUE, value |-> tree[base].value,
                 source |-> CurrentSource(tree[base]), kv |-> treeMeta[base]]
           ELSE IF treeMeta[base] # {}
             THEN [kind |-> "object", hasValue |-> FALSE, value |-> ObjectValue,
                   source |-> <<>>, kv |-> treeMeta[base]]
             ELSE UndefinedDatum
    [] leaf = "value" ->
         IF ~tree[base].present
           THEN UndefinedDatum
           ELSE [kind |-> IF tree[base].value = Null THEN "null" ELSE "bare",
                 hasValue |-> FALSE, value |-> tree[base].value,
                 source |-> <<>>, kv |-> {}]
    [] leaf = "meta" ->
         IF treeMeta[base] # {}
           THEN [kind |-> "object", hasValue |-> FALSE, value |-> ObjectValue,
                 source |-> <<>>, kv |-> {}]
           ELSE UndefinedDatum

NoSnap == [kind |-> "none", path |-> "", leaf |-> "", value |-> Undefined,
           source |-> <<>>, hasMeta |-> FALSE, meta |-> {}]

\* getPath that lets the tree's metadata win over the registry's.
getPathTreeWins(base, leaf) ==
  LET data == getSelfPath(base, leaf)
      metaPath == IF leaf = "" THEN treeMeta[base] ELSE {}
      custom == leaf = "" /\ MapHas(createdPaths, base)
  IN IF data.kind = "undefined"
       THEN [NoSnap EXCEPT !.kind = "notFound", !.path = base, !.leaf = leaf]
       ELSE IF data.kind = "null"
         THEN [NoSnap EXCEPT !.kind = "rejected", !.path = base, !.leaf = leaf]
         ELSE [kind |-> "snapshot", path |-> base, leaf |-> leaf,
               value |-> data.value, source |-> data.source,
               hasMeta |-> (metaPath # {} \/ custom),
               meta |-> IF custom THEN MergeMeta(MapVal(createdPaths, base), metaPath)
                                  ELSE metaPath]

\* getPath(path) for path = base (leaf "") or base.leaf.  An async function:
\* the TypeError of `'value' in data` for a null datum rejects its promise.
\* The registry is keyed by the paths of createPath, none of which has a leaf.
getPath(base, leaf) ==
  LET data == getSelfPath(base, leaf)
      metaPath == IF leaf = "" THEN treeMeta[base] ELSE {}
      custom == leaf = "" /\ MapHas(createdPaths, base)
  IN IF data.kind = "undefined"
       THEN [NoSnap EXCEPT !.kind = "notFound", !.path = base, !.leaf = leaf]
       ELSE IF data.kind = "null"
         THEN [NoSnap EXCEPT !.kind = "rejected", !.path = base, !.leaf = leaf]
         ELSE [kind |-> "snapshot", path |-> base, leaf |-> leaf,
               value |-> data.value, source |-> data.source,
               hasMeta |-> (metaPath # {} \/ custom),
               meta |-> IF custom THEN MergeMeta(metaPath, MapVal(createdPaths, base))
                                  ELSE metaPath]

\* ------------------------------------------------- strings, by character
\* The characters of the texts the model lists, searches and sorts.
Text(str) ==
  CASE str = ""           -> <<>>
    [] str = "nav.sog"    -> <<"n", "a", "v", ".", "s", "o", "g">>
    [] str = "tanks.fuel" -> <<"t", "a", "n", "k", "s", ".", "f", "u", "e", "l">>
    [] str = "env.tMax"   -> <<"e", "n", "v", ".", "t", "M", "a", "x">>
    [] str = "env.temp"   -> <<"e", "n", "v", ".", "t", "e", "m", "p">>
    [] str = "tm"         -> <<"t", "m">>
    [] str = "TEMP"       -> <<"T", "E", "M", "P">>
    [] str = "nav..sog"   -> <<"n", "a", "v", ".", ".", "s", "o", "g">>
    [] str = ".nav"       -> <<".", "n", "a", "v">>
    [] str = "nav."       -> <<"n", "a", "v", ".">>
    [] str = "nav.so-g"   -> <<"n", "a", "v", ".", "s", "o", "-", "g">>
    [] str = "nav.1og"    -> <<"n", "a", "v", ".", "1", "o", "g">>

\* UTF-16 code units.
CharCode(c) ==
  CASE c = "." -> 46  [] c = "-" -> 45  [] c = "0" -> 48  [] c = "1" -> 49
    [] c = "E" -> 69  [] c = "M" -> 77  [] c = "P" -> 80  [] c = "T" -> 84
    [] c = "a" -> 97  [] c = "e" -> 101 [] c = "f" -> 102 [] c = "g" -> 103
    [] c = "k" -> 107 [] c = "l" -> 108 [] c = "m" -> 109 [] c = "n" -> 110
    [] c = "o" -> 111 [] c = "p" -> 112 [] c = "s" -> 115 [] c = "t" -> 116
    [] c = "u" -> 117 [] c = "v" -> 118 [] c = "x" -> 120

IsUpper(c) == CharCode(c) >= 65 /\ CharCode(c) <= 90

LowerChar(c) ==
  CASE c = "E" -> "e" [] c = "M" -> "m" [] c = "P" -> "p" [] c = "T" -> "t"
    [] OTHER -> c

\* A toLowerCase that leaves the text as it is.
toLowerCaseKeep(t) == t

\* String.prototype.toLowerCase
toLowerCase(t) == [i \in 1..Len(t) |-> LowerChar(t[i])]

\* String.prototype.includes
includes(t, sub) ==
  \E i \in 0..Len(t) :
    /\ i + Len(sub) <= Len(t)
    /\ SubSeq(t, i + 1, i + Len(sub)) = sub

\* -1, 0 or 1: two sequences of numbers compared item by item, a proper
\* prefix first.
CompareKeys(x, y) ==
  LET n == IF Len(x) < Len(y) THEN Len(x) ELSE Len(y)
      D == {i \in 1..n : x[i] # y[i]}
  IN IF D = {}
       THEN IF Len(x) < Len(y) THEN -1 ELSE IF Len(x) > Len(y) THEN 1 ELSE 0
       ELSE LET i == CHOOSE j \in D : \A k \in D : j <= k
            IN IF x[i] < y[i] THEN -1 ELSE 1

\* a.localeCompare(b) under the default collation: punctuation before
\* digits before letters, letters compared without regard to case; texts
\* equal up to case are ordered by their first difference in case, the
\* lowercase letter first.
localeCompare(a, b) ==
  LET ta == Text(a)
      tb == Text(b)
      primary == CompareKeys([i \in 1..Len(ta) |-> CharCode(LowerChar(ta[i]))],
                             [i \in 1..Len(tb) |-> CharCode(LowerChar(tb[i]))])
  IN IF primary # 0
       THEN primary
       ELSE CompareKeys([i \in 1..Len(ta) |-> IF IsUpper(ta[i]) THEN 1 ELSE 0],
                        [i \in 1..Len(tb) |-> IF IsUpper(tb[i]) THEN 1 ELSE 0])

\* Comparison of the code units, as the < of strings.
codeUnitCompare(a, b) ==
  CompareKeys([i \in 1..Len(Text(a)) |-> CharCode(Text(a)[i])],
              [i \in 1..Len(Text(b)) |-> CharCode(Text(b)[i])])

\* ------------------------------------------------- PathManager: listing
\* PathFilter; an absent search or baseUnit is "", an absent flag is FALSE.
NoFilter == [search |-> "", hasValue |-> FALSE, hasMeta |-> FALSE, baseUnit |-> ""]

\* The order in which Object.keys gives the keys of the tree, level by
\* level: the leaves in the order a walk of the nested object meets them.
TraversalOrders ==
  LET D == DOMAIN tree
      Perms == {f \in [1..Cardinality(D) -> D] : \A i, j \in 1..Cardinality(D) :
                                                  i # j => f[i] # f[j]}
      Top(q) == Text(q)[1]
  IN {f \in Perms : \A i, j, k \in 1..Cardinality(D) :
                      (i < j /\ j < k /\ Top(f[i]) = Top(f[k])) => Top(f[j]) = Top(f[i])}

\* The PathInfo extractPaths pushes for the leaf object at path.
LeafInfo(path) ==
  LET custom == MapHas(createdPaths, path)
  IN [kind |-> "snapshot", path |-> path, leaf |-> "",
      value |-> tree[path].value, source |-> CurrentSource(tree[path]),
      hasMeta |-> (treeMeta[path] # {} \/ custom),
      meta |-> IF custom THEN MergeMeta(treeMeta[path], MapVal(createdPaths, path))
                         ELSE treeMeta[path]]

\* extractPaths(vesselData, '', paths): one PathInfo per object that has a
\* value key, in the order of the walk.
extractPaths(order) ==
  LET leaves == SelectSeq(order, LAMBDA q : tree[q].present)
  IN [i \in 1..Len(leaves) |-> LeafInfo(leaves[i])]

UnitsOf(info) == {kv[2] : kv \in {m \in info.meta : m[1] = "units"}}

\* filtered.sort((a, b) => a.path.localeCompare(b.path)): an insertion
\* sort, which keeps the order of items that compare equal.
RECURSIVE InsertSorted(_, _)
InsertSorted(sorted, x) ==
  IF sorted = <<>>
    THEN <<x>>
    ELSE IF localeCompare(x.path, sorted[Len(sorted)].path) >= 0
      THEN Append(sorted, x)
      ELSE Append(InsertSorted(SubSeq(sorted, 1, Len(sorted) - 1), x),
                  sorted[Len(sorted)])

\* A sort that leaves the list in the order of the walk.
sortSkipped(list) == list

RECURSIVE sort(_)
sort(list) ==
  IF list = <<>> THEN <<>>
  ELSE InsertSorted(sort(SubSeq(list, 1, Len(list) - 1)), list[Len(list)])

\* The filter steps and the sort of getAllPaths, applied to the paths found.
filterAndSort(paths, filter) ==
  LET f1 == IF filter.search # ""
              THEN SelectSeq(paths, LAMBDA i :
                     includes(toLowerCase(Text(i.path)), toLowerCase(Text(filter.search))))
              ELSE paths
      f2 == IF filter.hasValue
              THEN SelectSeq(f1, LAMBDA i : i.value # Null /\ i.value # Undefined)
              ELSE f1
      f3 == IF filter.hasMeta THEN SelectSeq(f2, LAMBDA i : i.hasMeta) ELSE f2
      f4 == IF filter.baseUnit # ""
              THEN SelectSeq(f3, LAMBDA i : filter.baseUnit \in UnitsOf(i))
              ELSE f3
  IN sort(f4)

\* getAllPaths(filter).  order: the key order of the tree; apiOk: the host's
\* direct read gives the tree; httpOk: the HTTP fallback, taken when the
\* direct read gave no path, gives the tree.
getAllPaths(filter, order, apiOk, httpOk) ==
  LET direct == IF apiOk THEN extractPaths(order) ELSE <<>>
      paths  == IF direct # <<>> THEN direct
                ELSE IF httpOk THEN extractPaths(order) ELSE <<>>
  IN filterAndSort(paths, filter)

\* ------------------------------------- PathManager: the walk of extractPaths
\* Nested data as the host gives it: a primitive, null, or an object whose
\* entries are in the order of Object.keys.
Prim        == [kind |-> "primitive", entries |-> <<>>]
NullNode    == [kind |-> "null", entries |-> <<>>]
NoDoc       == [kind |-> "undefined", entries |-> <<>>]
Obj(entries) == [kind |-> "object", entries |-> entries]
Entry(key, child) == <<[key |-> key, child |-> child]>>

\* 'key' in obj, and obj[key]
HasKey(obj, key) == \E i \in 1..Len(obj.entries) : obj.entries[i].key = key
ChildOf(obj, key) ==
  IF HasKey(obj, key)
    THEN obj.entries[CHOOSE i \in 1..Len(obj.entries) : obj.entries[i].key = key].child
    ELSE NoDoc

skipProps == {"meta", "timestamp", "$source", "source", "values", "pgn", "sentence"}

\* currentPath ? `${currentPath}.${key}` : key
newPath(currentPath, key) ==
  IF currentPath = <<>> THEN <<key>> ELSE currentPath \o <<Dot, key>>

\* An extractPaths that does not look below an object that has a value key.
RECURSIVE extractPathsLeafStops(_, _)
extractPathsLeafStops(obj, currentPath) ==
  IF obj.kind # "object"
    THEN <<>>
    ELSE IF HasKey(obj, "value")
      THEN <<[path |-> currentPath, value |-> ChildOf(obj, "value")]>>
      ELSE LET RECURSIVE Keys(_)
               Keys(i) ==
                 IF i > Len(obj.entries)
                   THEN <<>>
                   ELSE LET e == obj.entries[i]
                        IN (IF e.key \in skipProps \/ e.key = "value"
                                 \/ e.child.kind # "object"
                              THEN <<>>
                              ELSE extractPathsLeafStops(e.child, newPath(currentPath, e.key)))
                           \o Keys(i + 1)
           IN Keys(1)

\* extractPaths(obj, currentPath, paths): what the walk pushes onto paths, in
\* order.  Of each PathInfo the path and the value are kept.
RECURSIVE extractPathsWalk(_, _)
extractPathsWalk(obj, currentPath) ==
  IF obj.kind # "object"
    THEN <<>>
    ELSE LET own == IF HasKey(obj, "value")
                      THEN <<[path |-> currentPath, value |-> ChildOf(obj, "value")]>>
                      ELSE <<>>
             RECURSIVE Keys(_)
             Keys(i) ==
               IF i > Len(obj.entries)
                 THEN <<>>
                 ELSE LET e == obj.entries[i]
                      IN (IF e.key \in skipProps \/ e.key = "value"
                               \/ e.child.kind # "object"
                            THEN <<>>
                            ELSE extractPathsWalk(e.child, newPath(currentPath, e.key)))
                         \o Keys(i + 1)
         IN own \o Keys(1)

\* Vessel data to walk: a root with an optional value key and an optional
\* nav object, which holds an optional value (a primitive, null or an object
\* with a value of its own), an optional child a and an optional skipped key
\* with an object that has a value.
ValObj == Obj(Entry("value", Prim))
NavNodes ==
  LET valueOpts == {<<>>} \cup {Entry("value", c) : c \in {Prim, NullNode, ValObj}}
      aOpts     == {<<>>} \cup {Entry("a", c) : c \in {Prim, NullNode, Obj(<<>>), ValObj}}
      skipOpts  == {<<>>} \cup {Entry(k, ValObj) : k \in skipProps}
  IN {Obj(v \o a \o k) : v \in valueOpts, a \in aOpts, k \in skipOpts}
Docs ==
  {NullNode, Prim} \cup
  {Obj(v \o n) : v \in {<<>>, Entry("value", Prim)},
                 n \in {<<>>} \cup {Entry("nav", c) : c \in NavNodes}}

\* -------------------------------------------------------- WebSocketServer
ClientIds    == 1..(MaxClients + 1)
Wildcard     == "*"
NullablePath == "nav.sog.value"        \* the value below the node of nav.sog
SubTokens    == Paths \cup {Wildcard, NullablePath}
TokenBase(t) == IF t = NullablePath THEN "nav.sog" ELSE t
TokenLeaf(t) == IF t = NullablePath THEN "value" ELSE ""

\* A JS Set, in insertion order.
SetHas(set, x)    == \E i \in 1..Len(set) : set[i] = x
SetAdd(set, x)    == IF SetHas(set, x) THEN set ELSE Append(set, x)
\* A delete that takes the wildcard out together with the element.
SetDeleteWithWildcard(set, x) == SelectSeq(set, LAMBDA y : y # x /\ y # Wildcard)
SetDelete(set, x) == SelectSeq(set, LAMBDA y : y # x)
RECURSIVE SetAddAll(_, _)
SetAddAll(set, xs) ==
  IF xs = <<>> THEN set ELSE SetAddAll(SetAdd(set, Head(xs)), Tail(xs))
RECURSIVE SetDeleteAll(_, _)
SetDeleteAll(set, xs) ==
  IF xs = <<>> THEN set ELSE SetDeleteAll(SetDelete(set, Head(xs)), Tail(xs))

\* What an observer sends: text that JSON.parse rejects, or a WSMessage.
Garbage == [parses |-> FALSE, type |-> "", hasPaths |-> FALSE, paths |-> <<>>, path |-> ""]
WSMessages ==
  { Garbage,
    [parses |-> TRUE, type |-> "ping", hasPaths |-> FALSE, paths |-> <<>>, path |-> ""],
    [parses |-> TRUE, type |-> "unsubscribeAll", hasPaths |-> FALSE, paths |-> <<>>, path |-> ""],
    [parses |-> TRUE, type |-> "unsubscribe", hasPaths |-> FALSE, paths |-> <<>>, path |-> "nav.sog"],
    [parses |-> TRUE, type |-> "subscribe", hasPaths |-> TRUE,
     paths |-> <<"nav.sog", "tanks.fuel">>, path |-> ""] }
  \cup { [parses |-> TRUE, type |-> "subscribe", hasPaths |-> FALSE, paths |-> <<>>,
          path |-> t] : t \in {"nav.sog", Wildcard, NullablePath} }

\* What the server sends (WSUpdate).  re and ev are not part of the message:
\* they tag it with the observer's message it answers and with the change
\* event it reports.
NoUpdate == [path |-> "", value |-> Undefined, timestamp |-> 0, source |-> <<>>]
NoMsg == [type |-> "", paths |-> <<>>, update |-> NoUpdate, message |-> "",
          re |-> 0, ev |-> 0]
FullMsg(paths, re)  == [NoMsg EXCEPT !.type = "full", !.paths = paths, !.re = re]
ErrorMsg(text, re)  == [NoMsg EXCEPT !.type = "error", !.message = text, !.re = re]
UpdateMsg(info, ev) == [NoMsg EXCEPT !.type = "update", !.update = info, !.ev = ev]

NoSocket == [readyState |-> "NONE", inbox |-> <<>>, sent |-> 0]

\* The broadcaster's fields together with the sockets and the bus listener.
Wsv == [wss |-> wss, clients |-> clients, clientIdCounter |-> clientIdCounter,
        subscriptions |-> subscriptions, deltaUnsubscribe |-> deltaUnsubscribe,
        upgradeHandler |-> upgradeHandler, sockets |-> sockets, feed |-> feed,
        pendingFull |-> pendingFull]

\* A send that does not look at the socket's readyState.
sendUnguarded(w, client, message) ==
  [w EXCEPT !.sockets[client].inbox = Append(@, message)]

\* send(client, message): only to a socket that is OPEN.
send(w, client, message) ==
  IF w.sockets[client].readyState = "OPEN"
    THEN [w EXCEPT !.sockets[client].inbox = Append(@, message)]
    ELSE w

sendError(w, client, text, re) == send(w, client, ErrorMsg(text, re))

\* A loop that ends at the first subscribed client it cannot send to.
RECURSIVE handleDeltaToStopAtUnwritable(_, _, _, _)
handleDeltaToStopAtUnwritable(w, cs, info, ev) ==
  IF cs = {}
    THEN w
    ELSE LET c == CHOOSE x \in cs : \A y \in cs : x <= y
             subscribed == SetHas(w.subscriptions[c], info.path)
                             \/ SetHas(w.subscriptions[c], Wildcard)
         IN IF subscribed /\ w.sockets[c].readyState # "OPEN"
              THEN w
              ELSE handleDeltaToStopAtUnwritable(
                     IF subscribed THEN send(w, c, UpdateMsg(info, ev)) ELSE w,
                     cs \ {c}, info, ev)

\* The loop of handleDelta over the clients in cs.
RECURSIVE handleDeltaTo(_, _, _, _)
handleDeltaTo(w, cs, info, ev) ==
  IF cs = {}
    THEN w
    ELSE LET c == CHOOSE x \in cs : \A y \in cs : x <= y
             w1 == IF SetHas(w.subscriptions[c], info.path)
                      \/ SetHas(w.subscriptions[c], Wildcard)
                     THEN send(w, c, UpdateMsg(info, ev))
                     ELSE w
         IN handleDeltaTo(w1, cs \ {c}, info, ev)

\* A handleDelta that sends every change to every client.
handleDeltaToAll(w, delta, ev) ==
  IF delta.path = ""
    THEN w
    ELSE LET info == [path |-> delta.path, value |-> delta.value,
                      timestamp |-> delta.timestamp,
                      source |-> IF delta.dsource # <<>> THEN delta.dsource
                                                         ELSE delta.slabel]
             All == [w EXCEPT !.subscriptions = [c \in ClientIds |-> <<Wildcard>>]]
         IN [handleDeltaTo(All, w.clients, info, ev)
               EXCEPT !.subscriptions = w.subscriptions]

\* handleDelta(delta): delta is what the self bus emits, {path, value,
\* timestamp, $source, source}.
handleDelta(w, delta, ev) ==
  IF delta.path = ""
    THEN w
    ELSE LET info == [path |-> delta.path, value |-> delta.value,
                      timestamp |-> delta.timestamp,
                      source |-> IF delta.dsource # <<>> THEN delta.dsource
                                                         ELSE delta.slabel]
         IN handleDeltaTo(w, w.clients, info, ev)

\* A sendCurrentValues that reads the first subscribed path only.
sendCurrentValuesFirst(w, client, re, order, apiOk) ==
  LET subs   == w.subscriptions[client]
      direct == IF apiOk THEN extractPaths(order) ELSE <<>>
      first  == IF subs = <<>> THEN <<>> ELSE <<Head(subs)>>
      infos  == [i \in 1..Len(first) |-> getPath(TokenBase(first[i]), TokenLeaf(first[i]))]
  IN IF SetHas(subs, Wildcard)
       THEN IF direct # <<>>
              THEN send(w, client, FullMsg(filterAndSort(direct, NoFilter), re))
              ELSE [w EXCEPT !.pendingFull = @ \cup
                      {[client |-> client, re |-> re,
                        at |-> Len(w.sockets[client].inbox)]}]
       ELSE IF \E i \in 1..Len(infos) : infos[i].kind = "rejected"
         THEN w
         ELSE send(w, client,
                   FullMsg(SelectSeq(infos, LAMBDA i : i.kind = "snapshot"), re))

\* sendCurrentValues(client), called for the observer's message number re.
\* The awaits of getPath and of a getAllPaths that found paths suspend it for
\* microtasks only; a getAllPaths that found none suspends it in the HTTP
\* fetch.  A getPath that rejects rejects sendCurrentValues: nothing is sent.
sendCurrentValues(w, client, re, order, apiOk) ==
  LET subs   == w.subscriptions[client]
      direct == IF apiOk THEN extractPaths(order) ELSE <<>>
      infos  == [i \in 1..Len(subs) |-> getPath(TokenBase(subs[i]), TokenLeaf(subs[i]))]
  IN IF SetHas(subs, Wildcard)
       THEN IF direct # <<>>
              THEN send(w, client, FullMsg(filterAndSort(direct, NoFilter), re))
              ELSE [w EXCEPT !.pendingFull = @ \cup
                      {[client |-> client, re |-> re,
                        at |-> Len(w.sockets[client].inbox)]}]
       ELSE IF \E i \in 1..Len(infos) : infos[i].kind = "rejected"
         THEN w
         ELSE send(w, client,
                   FullMsg(SelectSeq(infos, LAMBDA i : i.kind = "snapshot"), re))

\* A handleMessage whose unsubscribeAll empties every client's subscriptions.
handleWsMessageClearsEveryone(w, client, message, re, order, apiOk) ==
  IF message.type = "subscribe"
    THEN sendCurrentValues(
           [w EXCEPT !.subscriptions[client] =
              IF message.hasPaths THEN SetAddAll(@, message.paths)
              ELSE IF message.path # "" THEN SetAdd(@, message.path) ELSE @],
           client, re, order, apiOk)
    ELSE IF message.type = "unsubscribe"
      THEN [w EXCEPT !.subscriptions[client] =
              IF message.hasPaths THEN SetDeleteAll(@, message.paths)
              ELSE IF message.path # "" THEN SetDelete(@, message.path) ELSE @]
      ELSE IF message.type = "unsubscribeAll"
        THEN [w EXCEPT !.subscriptions = [c \in ClientIds |-> <<>>]]
        ELSE sendError(w, client, "Unknown message type", re)

\* A handleMessage that forgets the subscriptions on an unknown type.
handleWsMessageClearing(w, client, message, re, order, apiOk) ==
  IF message.type = "subscribe"
    THEN sendCurrentValues(
           [w EXCEPT !.subscriptions[client] =
              IF message.hasPaths THEN SetAddAll(@, message.paths)
              ELSE IF message.path # "" THEN SetAdd(@, message.path) ELSE @],
           client, re, order, apiOk)
    ELSE IF message.type = "unsubscribe"
      THEN [w EXCEPT !.subscriptions[client] =
              IF message.hasPaths THEN SetDeleteAll(@, message.paths)
              ELSE IF message.path # "" THEN SetDelete(@, message.path) ELSE @]
      ELSE IF message.type = "unsubscribeAll"
        THEN [w EXCEPT !.subscriptions[client] = <<>>]
        ELSE [sendError(w, client, "Unknown message type", re)
                EXCEPT !.subscriptions[client] = <<>>]

\* A handleMessage whose unsubscribe forgets every subscription.
handleWsMessageUnsubscribeClears(w, client, message, re, order, apiOk) ==
  IF message.type = "subscribe"
    THEN sendCurrentValues(
           [w EXCEPT !.subscriptions[client] =
              IF message.hasPaths THEN SetAddAll(@, message.paths)
              ELSE IF message.path # "" THEN SetAdd(@, message.path) ELSE @],
           client, re, order, apiOk)
    ELSE IF message.type \in {"unsubscribe", "unsubscribeAll"}
      THEN [w EXCEPT !.subscriptions[client] = <<>>]
      ELSE sendError(w, client, "Unknown message type", re)

\* handleMessage(client, message) of the WebSocket server: the switch on
\* message.type.
handleWsMessage(w, client, message, re, order, apiOk) ==
  IF message.type = "subscribe"
    THEN sendCurrentValues(
           [w EXCEPT !.subscriptions[client] =
              IF message.hasPaths THEN SetAddAll(@, message.paths)
              ELSE IF message.path # "" THEN SetAdd(@, message.path) ELSE @],
           client, re, order, apiOk)
    ELSE IF message.type = "unsubscribe"
      THEN [w EXCEPT !.subscriptions[client] =
              IF message.hasPaths THEN SetDeleteAll(@, message.paths)
              ELSE IF message.path # "" THEN SetDelete(@, message.path) ELSE @]
      ELSE IF message.type = "unsubscribeAll"
        THEN [w EXCEPT !.subscriptions[client] = <<>>]
        ELSE sendError(w, client, "Unknown message type", re)

\* ws.on('message'): parse, handle, and answer a parse failure with an error.
onMessage(w, client, data, re, order, apiOk) ==
  IF data.parses
    THEN handleWsMessage(w, client, data, re, order, apiOk)
    ELSE sendError(w, client, "Invalid message format", re)

\* A connection handler that starts the client subscribed to everything.
onConnectionWildcard(w) ==
  LET id == w.clientIdCounter + 1
      w1 == [w EXCEPT !.clientIdCounter = id,
                      !.clients = @ \cup {id},
                      !.subscriptions[id] = <<Wildcard>>,
                      !.sockets[id] = [NoSocket EXCEPT !.readyState = "OPEN"]]
  IN send(w1, id, FullMsg(<<>>, 0))

\* wss.on('connection'): a new client, and the acknowledgement sent to it.
onConnection(w) ==
  LET id == w.clientIdCounter + 1
      w1 == [w EXCEPT !.clientIdCounter = id,
                      !.clients = @ \cup {id},
                      !.subscriptions[id] = <<>>,
                      !.sockets[id] = [NoSocket EXCEPT !.readyState = "OPEN"]]
  IN send(w1, id, FullMsg(<<>>, 0))

\* initialize(server, path); busOk: the stream bundle gives a bus to listen on.
initialize(w, busOk) ==
  [w EXCEPT !.wss = "open", !.upgradeHandler = "set",
            !.deltaUnsubscribe = IF busOk THEN "set" ELSE @,
            !.feed = IF busOk THEN TRUE ELSE @]

\* A close that leaves the listener on the bus.
closeKeepingFeed(w) ==
  [w EXCEPT !.upgradeHandler = "null",
            !.sockets = [c \in ClientIds |->
                           IF c \in w.clients /\ @[c].readyState = "OPEN"
                             THEN [@[c] EXCEPT !.readyState = "CLOSING"] ELSE @[c]],
            !.clients = {},
            !.wss = "null"]

\* close(): cancel the bus listener, detach the upgrade handler, close every
\* client's socket, forget the clients and the server.
close(w) ==
  [w EXCEPT !.feed = IF w.deltaUnsubscribe = "set" THEN FALSE ELSE @,
            !.deltaUnsubscribe = "null",
            !.upgradeHandler = "null",
            !.sockets = [c \in ClientIds |->
                           IF c \in w.clients /\ @[c].readyState = "OPEN"
                             THEN [@[c] EXCEPT !.readyState = "CLOSING"] ELSE @[c]],
            !.clients = {},
            !.wss = "null"]

\* -------------------------------------------------------- ResourceManager
NoteIds == {"id1", "id2"}
ScenarioNames == {"s1", "s2"}

\* What the store holds under an id: nothing, or a note with or without
\* properties, with or without properties.whatIfScenario (<<>>: undefined).
NoNote    == [exists |-> FALSE, properties |-> FALSE, whatIfScenario |-> <<>>]
PlainNote == [exists |-> TRUE, properties |-> FALSE, whatIfScenario |-> <<>>]
PropsNote == [exists |-> TRUE, properties |-> TRUE, whatIfScenario |-> <<>>]
ScenarioNote(sc) == [exists |-> TRUE, properties |-> TRUE, whatIfScenario |-> <<sc>>]
ForeignNotes == {PlainNote, PropsNote}

\* isOurNote(note): note?.properties?.whatIfScenario !== undefined
isOurNote(note) == note.exists /\ note.properties /\ note.whatIfScenario # <<>>

\* A getScenario that does not ask isOurNote: {id, ...undefined} for a note
\* without the marker.
getScenarioUnchecked(note, id) ==
  IF ~note.exists
    THEN <<>>
    ELSE IF note.whatIfScenario # <<>>
      THEN <<[note.whatIfScenario[1] EXCEPT !.id = id]>>
      ELSE <<[id |-> id, name |-> "", createdAt |-> 0, updatedAt |-> 0]>>

\* What getScenario resolves to for the note the store gave (or for the
\* store's rejection, a note that does not exist): <<>> for null, or
\* <<{id, ...whatIfScenario}>>.
getScenario(note, id) ==
  IF isOurNote(note)
    THEN <<[note.whatIfScenario[1] EXCEPT !.id = id]>>
    ELSE <<>>

\* {...existing, ...scenario, updatedAt: now}; an absent name is "".
updatedScenario(existing, patch, t) ==
  [id |-> existing.id,
   name |-> IF patch # "" THEN patch ELSE existing.name,
   createdAt |-> existing.createdAt,
   updatedAt |-> t]

NoOp == [kind |-> "none", id |-> "", existing |-> <<>>, patch |-> ""]

InitRes ==
  /\ notes = [i \in NoteIds |-> NoNote]
  /\ pendingOp = NoOp

InitWs ==
  /\ wss = "null"
  /\ clients = {}
  /\ clientIdCounter = 0
  /\ subscriptions = [c \in ClientIds |-> <<>>]
  /\ deltaUnsubscribe = "null"
  /\ upgradeHandler = "null"
  /\ sockets = [c \in ClientIds |-> NoSocket]
  /\ feed = FALSE
  /\ pendingFull = {}
  /\ events = 0
  /\ stopped = FALSE

SetWs(w) ==
  /\ wss' = w.wss
  /\ clients' = w.clients
  /\ clientIdCounter' = w.clientIdCounter
  /\ subscriptions' = w.subscriptions
  /\ deltaUnsubscribe' = w.deltaUnsubscribe
  /\ upgradeHandler' = w.upgradeHandler
  /\ sockets' = w.sockets
  /\ feed' = w.feed
  /\ pendingFull' = w.pendingFull

\* ---------------------------------------------------------------- actions
NoResult == [state |-> "", statusCode |-> 0, message |-> FALSE]

\* What the self bus emits for one value of a delta.
NoEvent == [path |-> "", value |-> Undefined, timestamp |-> 0,
            dsource |-> <<>>, slabel |-> <<>>]

\* op: the operation; out: what it gave its caller; call: the setValue call
\* it made; result, returned, callbacks: an interceptor's report; putPath,
\* value, accept: the path an interceptor was invoked with, the value and the
\* acceptAllSources option the operation was given; doc: the object a walk
\* was given.
NoLast == [op |-> "init", path |-> "", out |-> "", count |-> 0,
           call |-> NoCall, result |-> NoResult, callbacks |-> <<>>,
           snap |-> NoSnap, list |-> <<>>, filter |-> NoFilter,
           host |-> <<TRUE, TRUE>>, client |-> 0, re |-> 0, msg |-> Garbage,
           event |-> NoEvent, putPath |-> "", value |-> Undefined,
           accept |-> "", doc |-> NoDoc, url |-> <<>>,
           id |-> "", storeCall |-> "", scenario |-> <<>>]

\* The latest createPath call on a path: its arguments, whether its promise
\* resolved, and whether any createPath call on the path ever resolved.
NoCreate == [n |-> 0, value |-> Undefined, meta |-> NoMeta, resolved |-> FALSE,
             ever |-> FALSE]

TypeOK ==
  /\ nextId \in 0..(MaxInstalls + 1)
  /\ now \in 0..(MaxTime + 1)
  /\ calls \in 0..(MaxCalls + 1)
  /\ Len(bus) <= 2 * calls

Init ==
  /\ handlers = <<>>
  /\ unregisterFunctions = <<>>
  /\ createdPaths = <<>>
  /\ selfContext \in {initSelfContext(id) : id \in SelfIds}
  /\ hostPut = {}
  /\ nextId = 0
  /\ unregLog = <<>>
  /\ now = 0
  /\ tree = [p \in Paths |-> NoEntry]
  /\ treeMeta = [p \in Paths |-> {}]
  /\ bus = <<>>
  /\ timers = 0
  /\ calls = 0
  /\ appliedCall = [p \in Paths |-> 0]
  /\ writer = [p \in Paths |-> "none"]
  /\ last = NoLast
  /\ createdBy = [p \in Paths |-> NoCreate]
  /\ InitWs
  /\ InitRes

SetMgr(st) ==
  /\ handlers' = st.handlers
  /\ unregisterFunctions' = st.unregisterFunctions
  /\ hostPut' = st.hostPut
  /\ nextId' = st.nextId
  /\ unregLog' = st.unregLog

SetInj(inj) ==
  /\ bus' = inj.bus
  /\ timers' = inj.timers
  /\ calls' = inj.calls

mgrVars  == <<handlers, unregisterFunctions, hostPut, nextId, unregLog>>
injVars  == <<bus, timers, calls>>
treeVars == <<tree, treeMeta, appliedCall, writer>>

\* The clock advances.
Tick ==
  /\ now < MaxTime
  /\ now' = now + 1
  /\ last' = [NoLast EXCEPT !.op = "tick"]
  /\ UNCHANGED <<mgrVars, injVars, treeVars, createdPaths, selfContext, resVars, createdBy, wsVars>>

\* putHandlerManager.registerHandler(p, {acceptAllSources: accept})
RegisterHandler(p, accept, hostOk) ==
  /\ MapHas(handlers, p) \/ nextId < MaxInstalls
  /\ LET r == registerHandler(Mgr, p, accept, hostOk, now)
     IN /\ SetMgr(r.st)
        /\ last' = [NoLast EXCEPT
                      !.op = "register", !.path = p, !.accept = accept,
                      !.out = IF r.threw THEN "threw" ELSE "void"]
  /\ UNCHANGED <<injVars, treeVars, createdPaths, selfContext, resVars, now, createdBy, wsVars>>

\* putHandlerManager.unregisterHandler(p)
UnregisterHandler(p) ==
  /\ LET r == unregisterHandler(Mgr, p)
     IN /\ SetMgr(r.st)
        /\ last' = [NoLast EXCEPT
                      !.op = "unregister", !.path = p,
                      !.out = IF r.ret THEN "true" ELSE "false"]
  /\ UNCHANGED <<injVars, treeVars, createdPaths, selfContext, resVars, now, createdBy, wsVars>>

\* putHandlerManager.unregisterAll()
UnregisterAll ==
  /\ SetMgr(unregisterAll(Mgr))
  /\ last' = [NoLast EXCEPT !.op = "unregisterAll", !.out = "void",
                            !.count = Len(handlers)]
  /\ UNCHANGED <<injVars, treeVars, createdPaths, selfContext, resVars, now, createdBy, wsVars>>

\* [a-zA-Z], [0-9]
IsLetter(c) ==
  \/ CharCode(c) >= 65 /\ CharCode(c) <= 90
  \/ CharCode(c) >= 97 /\ CharCode(c) <= 122
IsDigit(c) == CharCode(c) >= 48 /\ CharCode(c) <= 57

\* ([a-zA-Z][a-zA-Z0-9]*|[0-9]+) against the whole of s
segmentTest(s) ==
  /\ s # <<>>
  /\ \/ IsLetter(s[1]) /\ \A i \in 2..Len(s) : IsLetter(s[i]) \/ IsDigit(s[i])
     \/ \A i \in 1..Len(s) : IsDigit(s[i])

\* /^(seg)(\.(seg))*$/.test(t): a segment, then as long as text is left a
\* dot and another segment.
RECURSIVE pathPatternTest(_)
pathPatternTest(t) ==
  LET D == {i \in 1..Len(t) : t[i] = "."}
  IN IF D = {}
       THEN segmentTest(t)
       ELSE LET d == CHOOSE i \in D : \A j \in D : i <= j
            IN /\ segmentTest(SubSeq(t, 1, d - 1))
               /\ pathPatternTest(SubSeq(t, d + 1, Len(t)))

\* Request paths the pattern of POST /paths does not match.
BadPaths == {BadPath, ".nav", "nav.", "nav.so-g", "nav.1og"}

\* The path pattern of POST /paths.
PathFormatOk(path) == pathPatternTest(Text(path))

\* POST /paths that looks for the value after it created the path.
PostPathsValueLate(path, value, meta, enablePut, readOk, busFail, hostOk) ==
  IF path = "" \/ ~PathFormatOk(path)
    THEN /\ last' = [NoLast EXCEPT !.op = "postPaths", !.path = path,
                                   !.value = value, !.out = "400"]
         /\ UNCHANGED <<mgrVars, injVars, treeVars, createdPaths, selfContext, resVars, now, createdBy, wsVars>>
    ELSE /\ calls < MaxCalls
         /\ calls < MaxCreates
         /\ LET c == createPath(Inj, createdPaths, path, value, meta, readOk, busFail)
            IN /\ SetInj(c.inj)
               /\ createdPaths' = c.created
               /\ createdBy' = [createdBy EXCEPT ![path] =
                                  [n |-> c.call.n, value |-> value, meta |-> meta,
                                   resolved |-> ~c.rejected,
                                   ever |-> (@.ever \/ ~c.rejected)]]
               /\ last' = [NoLast EXCEPT
                             !.op = "postPaths",
                             !.path = path, !.call = c.call, !.value = value,
                             !.out = IF value = Undefined THEN "400"
                                     ELSE IF c.rejected THEN "500" ELSE "201"]
         /\ UNCHANGED <<mgrVars, treeVars, selfContext, resVars, now, wsVars>>

\* POST /paths with body {path, value, meta, enablePut}
PostPaths(path, value, meta, enablePut, readOk, busFail, hostOk) ==
  IF path = "" \/ value = Undefined \/ ~PathFormatOk(path)
    THEN /\ last' = [NoLast EXCEPT !.op = "postPaths", !.path = path,
                                   !.value = value, !.out = "400"]
         /\ UNCHANGED <<mgrVars, injVars, treeVars, createdPaths, selfContext, resVars, now, createdBy, wsVars>>
    ELSE /\ calls < MaxCalls
         /\ calls < MaxCreates
         /\ (enablePut /\ ~MapHas(handlers, path)) => nextId < MaxInstalls
         /\ LET c == createPath(Inj, createdPaths, path, value, meta, readOk, busFail)
                r == registerHandler(Mgr, path, "true", hostOk, now)
            IN /\ SetInj(c.inj)
               /\ createdPaths' = c.created
               /\ createdBy' = [createdBy EXCEPT ![path] =
                                  [n |-> c.call.n, value |-> value, meta |-> meta,
                                   resolved |-> ~c.rejected,
                                   ever |-> (@.ever \/ ~c.rejected)]]
               /\ IF ~c.rejected /\ enablePut
                    THEN SetMgr(r.st)
                    ELSE UNCHANGED mgrVars
               /\ last' = [NoLast EXCEPT
                             !.op = IF enablePut THEN "postPathsPut" ELSE "postPaths",
                             !.path = path, !.call = c.call, !.value = value,
                             !.accept = IF enablePut THEN "true" ELSE "",
                             !.out = IF c.rejected \/ (enablePut /\ r.threw)
                                       THEN "500" ELSE "201"]
         /\ UNCHANGED <<treeVars, selfContext, resVars, now, wsVars>>

\* POST /puts that registers without asking hasPutHandler first.
PostPutsUnchecked(path, accept, hostOk) ==
  IF path = ""
    THEN /\ last' = [NoLast EXCEPT !.op = "postPuts", !.path = path, !.out = "400"]
         /\ UNCHANGED <<mgrVars, injVars, treeVars, createdPaths, selfContext, resVars, now,
                        createdBy, wsVars>>
    ELSE /\ MapHas(handlers, path) \/ nextId < MaxInstalls
         /\ LET r == registerHandler(Mgr, path, accept, hostOk, now)
            IN /\ SetMgr(r.st)
               /\ last' = [NoLast EXCEPT !.op = "postPuts", !.path = path,
                                         !.accept = accept,
                                         !.out = IF r.threw THEN "500" ELSE "201"]
         /\ UNCHANGED <<injVars, treeVars, createdPaths, selfContext, resVars, now,
                        createdBy, wsVars>>

\* POST /puts with body {path, options: {acceptAllSources: accept}}
PostPuts(path, accept, hostOk) ==
  IF path = ""
    THEN /\ last' = [NoLast EXCEPT !.op = "postPuts", !.path = path, !.out = "400"]
         /\ UNCHANGED <<mgrVars, injVars, treeVars, createdPaths, selfContext, resVars, now,
                        createdBy, wsVars>>
    ELSE IF hasPutHandler(path)
      THEN /\ last' = [NoLast EXCEPT !.op = "postPuts", !.path = path,
                                     !.accept = accept, !.out = "409"]
           /\ UNCHANGED <<mgrVars, injVars, treeVars, createdPaths, selfContext, resVars, now,
                          createdBy, wsVars>>
      ELSE /\ nextId < MaxInstalls
           /\ LET r == registerHandler(Mgr, path, accept, hostOk, now)
              IN /\ SetMgr(r.st)
                 /\ last' = [NoLast EXCEPT !.op = "postPuts", !.path = path,
                                           !.accept = accept,
                                           !.out = IF r.threw THEN "500" ELSE "201"]
           /\ UNCHANGED <<injVars, treeVars, createdPaths, selfContext, resVars, now,
                          createdBy, wsVars>>

\* PUT /value/<path> with body {value, source}
PutValue(path, value, source, readOk, busOk) ==
  IF path = "" \/ value = Undefined
    THEN /\ last' = [NoLast EXCEPT !.op = "putValue", !.path = path,
                                   !.out = "400"]
         /\ UNCHANGED <<mgrVars, injVars, treeVars, createdPaths, selfContext, resVars, now, createdBy, wsVars>>
    ELSE /\ calls < MaxCalls
         /\ LET r == setValue(Inj, path, value, source, readOk, busOk)
            IN /\ SetInj(r.inj)
               /\ last' = [NoLast EXCEPT
                             !.op = "putValue", !.path = path, !.call = r.call,
                             !.value = value,
                             !.out = IF r.rejected THEN "500" ELSE "200"]
         /\ UNCHANGED <<mgrVars, treeVars, createdPaths, selfContext, resVars, now, createdBy, wsVars>>

\* The handler closure of registerHandler, called by the host with
\* (context, putPath, value, callback).  setValue is called, not awaited:
\* the try block sees no exception from it, whatever its promise becomes.
putHandler(inj, putPath, value, hasCallback, readOk, busOk) ==
  LET r      == setValue(inj, putPath, value, NoSource, readOk, busOk)
      caught == FALSE
      result == IF caught
                  THEN [state |-> "FAILED", statusCode |-> 500, message |-> TRUE]
                  ELSE [state |-> "COMPLETED", statusCode |-> 200, message |-> FALSE]
  IN [inj |-> r.inj, call |-> r.call, returned |-> result,
      callbacks |-> IF hasCallback THEN <<result>> ELSE <<>>]

\* An interceptor that injects at the path it was registered for.
PutInvokeAtRegistered(h, putPath, value, hasCallback, readOk, busOk) ==
  /\ h \in hostPut
  /\ calls < MaxCalls
  /\ LET r == putHandler(Inj, h.path, value, hasCallback, readOk, busOk)
     IN /\ SetInj(r.inj)
        /\ last' = [NoLast EXCEPT !.op = "put", !.path = h.path,
                                  !.putPath = putPath, !.value = value,
                                  !.call = r.call, !.out = "returned",
                                  !.result = r.returned,
                                  !.callbacks = r.callbacks]
  /\ UNCHANGED <<mgrVars, treeVars, createdPaths, selfContext, resVars, now, createdBy, wsVars>>

\* The host delivers a PUT request to an installed interceptor.
PutInvoke(h, putPath, value, hasCallback, readOk, busOk) ==
  /\ h \in hostPut
  /\ calls < MaxCalls
  /\ LET r == putHandler(Inj, putPath, value, hasCallback, readOk, busOk)
     IN /\ SetInj(r.inj)
        /\ last' = [NoLast EXCEPT !.op = "put", !.path = h.path,
                                  !.putPath = putPath, !.value = value,
                                  !.call = r.call, !.out = "returned",
                                  !.result = r.returned,
                                  !.callbacks = r.callbacks]
  /\ UNCHANGED <<mgrVars, treeVars, createdPaths, selfContext, resVars, now, createdBy, wsVars>>

wsCtl == <<wss, clients, clientIdCounter, subscriptions, deltaUnsubscribe,
           upgradeHandler, feed, pendingFull, stopped>>

\* The self bus emits a change event: the listener of subscribeToDeltaStream,
\* while installed, passes it to handleDelta.
Emit(event) ==
  /\ IF feed
       THEN /\ events' = events + 1
            /\ sockets' = handleDelta(Wsv, event, events + 1).sockets
       ELSE UNCHANGED <<events, sockets>>
  /\ UNCHANGED wsCtl

\* The tree applies the oldest delta the bus holds.
TreeApply ==
  /\ bus # <<>>
  /\ LET d == Head(bus)
         e == [path |-> d.path, value |-> d.value, timestamp |-> d.timestamp,
               dsource |-> d.source, slabel |-> <<>>]
     IN IF d.kind = "values"
          THEN /\ tree' = [tree EXCEPT ![d.path] =
                             [present |-> TRUE, value |-> d.value,
                              dsource |-> d.source, slabel |-> <<>>]]
               /\ appliedCall' = [appliedCall EXCEPT ![d.path] = d.call]
               /\ writer' = [writer EXCEPT ![d.path] = d.origin]
               /\ Emit(e)
               /\ last' = [NoLast EXCEPT !.op = "treeApply", !.event = e]
               /\ UNCHANGED treeMeta
          ELSE /\ treeMeta' = [treeMeta EXCEPT ![d.path] = MergeMeta(@, d.meta)]
               /\ last' = [NoLast EXCEPT !.op = "treeApply"]
               /\ UNCHANGED <<tree, appliedCall, writer, wsVars>>
  /\ bus' = Tail(bus)
  /\ UNCHANGED <<mgrVars, timers, calls, createdPaths, selfContext, resVars, now, createdBy>>

\* Another provider's delta reaches the tree.
ExternalDelta(p, v, ds, sl) ==
  /\ feed => events < MaxEvents
  /\ tree' = [tree EXCEPT ![p] = [present |-> TRUE, value |-> v,
                                  dsource |-> ds, slabel |-> sl]]
  /\ writer' = [writer EXCEPT ![p] = "external"]
  /\ LET e == [path |-> p, value |-> v, timestamp |-> now,
               dsource |-> ds, slabel |-> sl]
     IN /\ Emit(e)
        /\ last' = [NoLast EXCEPT !.op = "external", !.path = p, !.event = e]
  /\ UNCHANGED <<mgrVars, injVars, treeMeta, appliedCall, createdPaths, selfContext, resVars, now, createdBy>>

\* Another provider's delta for the empty path (the vessel's root object).
RootDelta(v) ==
  /\ feed
  /\ events < MaxEvents
  /\ LET e == [path |-> "", value |-> v, timestamp |-> now,
               dsource |-> <<N2K>>, slabel |-> <<>>]
     IN /\ Emit(e)
        /\ last' = [NoLast EXCEPT !.op = "external", !.event = e]
  /\ UNCHANGED <<mgrVars, injVars, treeVars, createdPaths, selfContext, resVars, now, createdBy>>

\* Another provider's metadata reaches the tree.
ExternalMeta(p, kv) ==
  /\ treeMeta' = [treeMeta EXCEPT ![p] = MergeMeta(@, kv)]
  /\ last' = [NoLast EXCEPT !.op = "externalMeta", !.path = p]
  /\ UNCHANGED <<mgrVars, injVars, tree, appliedCall, writer, createdPaths,
                 selfContext, resVars, now, createdBy, wsVars>>

\* A setTimeout read-back of setValue runs: it fetches and logs, no more.
ReadBack ==
  /\ timers > 0
  /\ timers' = timers - 1
  /\ last' = [NoLast EXCEPT !.op = "readBack"]
  /\ UNCHANGED <<mgrVars, bus, calls, treeVars, createdPaths, selfContext, resVars, now, createdBy, wsVars>>

\* pathManager.getPath(path) for path = base or base.leaf
GetPath(base, leaf) ==
  /\ LET r == getPath(base, leaf)
     IN last' = [NoLast EXCEPT !.op = "getPath", !.path = base, !.out = r.kind,
                               !.snap = r]
  /\ UNCHANGED <<mgrVars, injVars, treeVars, createdPaths, selfContext, resVars, now,
                 createdBy, wsVars>>

\* The PathFilter GET /paths builds from the query; an absent parameter is "".
PathFilterOf(query) ==
  [search   |-> query.search,
   hasValue |-> (query.hasValue = "true"),
   hasMeta  |-> (query.hasMeta = "true"),
   baseUnit |-> query.baseUnit]

Queries ==
  [search : {"", "tm", "TEMP"}, hasValue : {"true", ""}, hasMeta : {"true", "false"},
   baseUnit : {"", "ratio"}]

\* GET /paths?search=..&hasValue=..&hasMeta=..&baseUnit=..
GetPaths(query, order, apiOk, httpOk) ==
  /\ order \in TraversalOrders
  /\ LET filter == PathFilterOf(query)
     IN last' = [NoLast EXCEPT !.op = "getPaths", !.filter = filter,
                               !.host = <<apiOk, httpOk>>, !.out = "200",
                               !.list = getAllPaths(filter, order, apiOk, httpOk)]
  /\ UNCHANGED <<mgrVars, injVars, treeVars, createdPaths, selfContext, resVars, now,
                 createdBy, wsVars>>

\* plugin.start found the HTTP server: wsServer.initialize(server, path)
Initialize(busOk) ==
  /\ wss = "null"
  /\ ~stopped
  /\ SetWs(initialize(Wsv, busOk))
  /\ last' = [NoLast EXCEPT !.op = "initialize"]
  /\ UNCHANGED <<mgrVars, injVars, treeVars, createdPaths, selfContext, resVars, now,
                 createdBy, events, stopped>>

\* An upgrade request for the stream path: the server emits 'connection'.
Connect ==
  /\ wss = "open"
  /\ upgradeHandler = "set"
  /\ clientIdCounter < MaxClients
  /\ SetWs(onConnection(Wsv))
  /\ last' = [NoLast EXCEPT !.op = "connect", !.client = clientIdCounter + 1]
  /\ UNCHANGED <<mgrVars, injVars, treeVars, createdPaths, selfContext, resVars, now,
                 createdBy, events, stopped>>

MsgsSent == LET RECURSIVE Sum(_)
                Sum(cs) == IF cs = {} THEN 0
                           ELSE LET c == CHOOSE x \in cs : TRUE
                                IN sockets[c].sent + Sum(cs \ {c})
            IN Sum(ClientIds)

\* A message of an observer arrives on its socket.
ClientMessage(c, data, order, apiOk) ==
  /\ sockets[c].readyState \in {"OPEN", "CLOSING"}
  /\ MsgsSent < MaxMsgs
  /\ order \in TraversalOrders
  /\ LET re == sockets[c].sent + 1
         w  == [Wsv EXCEPT !.sockets[c].sent = re]
     IN /\ SetWs(onMessage(w, c, data, re, order, apiOk))
        /\ last' = [NoLast EXCEPT !.op = "message", !.client = c, !.re = re,
                                  !.msg = data]
  /\ UNCHANGED <<mgrVars, injVars, treeVars, createdPaths, selfContext, resVars, now,
                 createdBy, events, stopped>>

\* The HTTP fetch of a suspended sendCurrentValues ends: it sends what the
\* fetch gave, sorted.
FetchDone(pf, order, httpOk) ==
  /\ pf \in pendingFull
  /\ order \in TraversalOrders
  /\ LET paths == IF httpOk THEN extractPaths(order) ELSE <<>>
         w == [Wsv EXCEPT !.pendingFull = @ \ {pf}]
     IN SetWs(send(w, pf.client, FullMsg(filterAndSort(paths, NoFilter), pf.re)))
  /\ last' = [NoLast EXCEPT !.op = "fetchDone", !.client = pf.client, !.re = pf.re]
  /\ UNCHANGED <<mgrVars, injVars, treeVars, createdPaths, selfContext, resVars, now,
                 createdBy, events, stopped>>

\* A request target, in pieces: path segments, then "?" and a query.
wsPath == <<"/plugins", "/signalk-whatif-helper", "/stream">>
UpgradeTargets ==
  { wsPath,
    wsPath \o <<"?", "token=1">>,
    wsPath \o <<"/">>,
    wsPath \o <<"/extra">>,
    <<"/plugins", "/signalk-whatif-helper">>,
    <<"/signalk", "/v1", "/stream">>,
    <<"/signalk", "/v1", "/stream", "?", "subscribe=none">> }

\* new URL(request.url, base).pathname: the target up to its query.
pathnameOf(url) ==
  LET Q == {i \in 1..Len(url) : url[i] = "?"}
  IN IF Q = {} THEN url
     ELSE SubSeq(url, 1, (CHOOSE i \in Q : \A j \in Q : i <= j) - 1)

\* A test that takes every target below the stream path.
claimsUpgradeBelow(url) ==
  /\ Len(pathnameOf(url)) >= Len(wsPath)
  /\ SubSeq(pathnameOf(url), 1, Len(wsPath)) = wsPath

\* if (pathname === this.wsPath)
claimsUpgrade(url) == pathnameOf(url) = wsPath

\* The HTTP server emits 'upgrade' for a request to url: the handler, while
\* attached, passes the socket of a request for the stream path to the
\* WebSocket server, which emits 'connection'; it leaves any other alone.
Upgrade(url) ==
  /\ IF upgradeHandler = "set" /\ claimsUpgrade(url)
       THEN /\ clientIdCounter < MaxClients
            /\ SetWs(onConnection(Wsv))
            /\ last' = [NoLast EXCEPT !.op = "upgrade", !.url = url, !.out = "claimed",
                                      !.client = clientIdCounter + 1]
       ELSE /\ last' = [NoLast EXCEPT !.op = "upgrade", !.url = url, !.out = "passed"]
            /\ UNCHANGED <<wss, clients, clientIdCounter, subscriptions,
                           deltaUnsubscribe, upgradeHandler, sockets, feed, pendingFull>>
  /\ UNCHANGED <<mgrVars, injVars, treeVars, createdPaths, selfContext, resVars, now,
                 createdBy, events, stopped>>

\* A socket emits 'close', or 'error' (which the socket emits when it is
\* already closing or closed): the client leaves the set.
Disconnect(c, how, state) ==
  /\ sockets[c].readyState \in {"OPEN", "CLOSING"}
  /\ how = "close" => state = "CLOSED"
  /\ sockets' = [sockets EXCEPT ![c].readyState = state]
  /\ clients' = clients \ {c}
  /\ last' = [NoLast EXCEPT !.op = "disconnect", !.client = c, !.out = how]
  /\ UNCHANGED <<mgrVars, injVars, treeVars, createdPaths, selfContext, resVars, now,
                 createdBy, wss, clientIdCounter, subscriptions, deltaUnsubscribe,
                 upgradeHandler, feed, pendingFull, events, stopped>>

\* The socket of a connected client leaves OPEN (the closing handshake has
\* begun) before its 'close' event takes the client out of the set: what
\* send() reads as readyState is CLOSING.
SocketClosing(c) ==
  /\ c \in clients
  /\ sockets[c].readyState = "OPEN"
  /\ sockets' = [sockets EXCEPT ![c].readyState = "CLOSING"]
  /\ last' = [NoLast EXCEPT !.op = "closing", !.client = c]
  /\ UNCHANGED <<mgrVars, injVars, treeVars, createdPaths, selfContext, resVars, now,
                 createdBy, wss, clients, clientIdCounter, subscriptions,
                 deltaUnsubscribe, upgradeHandler, feed, pendingFull, events, stopped>>

\* plugin.stop(): putHandlerManager.unregisterAll(), then wsServer.close()
Stop ==
  /\ ~stopped
  /\ SetMgr(unregisterAll(Mgr))
  /\ SetWs(close(Wsv))
  /\ stopped' = TRUE
  /\ last' = [NoLast EXCEPT !.op = "stop", !.out = "void", !.count = Len(handlers)]
  /\ UNCHANGED <<injVars, treeVars, createdPaths, selfContext, resVars, now, createdBy, events>>

\* this.extractPaths(vesselData, '', paths) on the object the host gave.
ExtractPaths(doc) ==
  /\ last' = [NoLast EXCEPT !.op = "extractPaths", !.doc = doc,
                            !.list = extractPathsWalk(doc, <<>>)]
  /\ UNCHANGED <<mgrVars, injVars, treeVars, createdPaths, selfContext, resVars, now,
                 createdBy, wsVars>>

ReqPaths  == Paths \cup {"", BadPath}
ReqValues == Values \cup {Undefined}

\* The registry driven by its callers: register, unregister, teardown and
\* POST /paths.
Next ==
  \/ Tick
  \/ \E p \in Paths, a \in AcceptOptions, ok \in BOOLEAN : RegisterHandler(p, a, ok)
  \/ \E p \in Paths : UnregisterHandler(p)
  \/ UnregisterAll
  \/ \E p \in ReqPaths, v \in {"v1", Undefined}, e \in BOOLEAN, ok \in BOOLEAN :
       PostPaths(p, v, NoMeta, e, TRUE, "none", ok)

Spec == Init /\ [][Next]_vars

\* The injector driven by PUT /value, POST /paths, installed interceptors,
\* the tree and other providers.
NextInject ==
  \/ \E p \in Paths, bf \in {"none", "first"} :
       PostPaths(p, "v1", NoMeta, TRUE, TRUE, bf, TRUE)
  \/ \E p \in Paths \cup {""}, v \in {"v1", Undefined},
        s \in {NoSource, [given |-> TRUE, text |-> <<N2K>>]},
        ok \in BOOLEAN : PutValue(p, v, s, TRUE, ok)
  \/ \E h \in hostPut, q \in Paths, cb \in BOOLEAN, ok \in BOOLEAN :
       PutInvoke(h, q, "v1", cb, TRUE, ok)
  \/ TreeApply
  \/ ReadBack

SpecInject == Init /\ [][NextInject]_vars

NextLabel ==
  \/ \E p \in Paths \cup {""}, v \in {"v1", Undefined}, s \in ExplicitSources,
        rd \in BOOLEAN, ok \in BOOLEAN : PutValue(p, v, s, rd, ok)
  \/ TreeApply
  \/ \E ds \in ExternalLabels : ExternalDelta("nav.sog", "v1", ds, <<>>)
  \/ \E sl \in {<<>>, <<N2K>>} : ExternalDelta("nav.sog", "v1", <<>>, sl)

SpecLabel == Init /\ [][NextLabel]_vars

\* Reads of single paths against a tree that the plugin and other providers
\* write.
NextRead ==
  \/ \E p \in Paths, m \in Metas, bf \in {"none", "second"} :
       PostPaths(p, "v1", m, FALSE, TRUE, bf, TRUE)
  \/ PutValue("nav.sog", Null, NoSource, TRUE, TRUE)
  \/ TreeApply
  \/ \E v \in {"v1", Null} : ExternalDelta("nav.sog", v, <<N2K>>, <<>>)
  \/ \E kv \in TreeMetas : ExternalMeta("nav.sog", kv)
  \/ \E p \in Paths, leaf \in Leaves : GetPath(p, leaf)

SpecRead == Init /\ [][NextRead]_vars

\* Trees, tree metadata and registries to enumerate.
ListEntries ==
  { NoEntry,
    [present |-> TRUE, value |-> "v1", dsource |-> <<N2K>>, slabel |-> <<>>],
    [present |-> TRUE, value |-> Null, dsource |-> <<N2K>>, slabel |-> <<>>] }

InitList ==
  /\ handlers = <<>>
  /\ unregisterFunctions = <<>>
  /\ createdPaths \in { <<>>, <<[key |-> "env.temp", val |-> {<<"units", "ratio">>}]>> }
  /\ selfContext = VesselsSelf
  /\ hostPut = {}
  /\ nextId = 0
  /\ unregLog = <<>>
  /\ now = 0
  /\ tree \in {t \in [ListPaths -> ListEntries] :
                 \/ \A p \in ListPaths : ~t[p].present
                 \/ /\ t["nav.sog"].value = "v1"
                    /\ t["env.temp"].value # Null
                    /\ t["env.tMax"].present}
  /\ treeMeta \in {m \in [ListPaths -> {{}} \cup TreeMetas] :
                     /\ m["nav.sog"] = {}
                     /\ m["env.temp"] # {<<"units", "ratio">>}
                     /\ m["env.tMax"] # {<<"units", "ratio">>}}
  /\ bus = <<>>
  /\ timers = 0
  /\ calls = 0
  /\ appliedCall = [p \in Paths |-> 0]
  /\ writer = [p \in Paths |-> "none"]
  /\ last = NoLast
  /\ createdBy = [p \in Paths |-> NoCreate]
  /\ InitWs
  /\ InitRes

NextList ==
  \E q \in Queries, o \in TraversalOrders,
     host \in {<<TRUE, TRUE>>, <<FALSE, TRUE>>, <<FALSE, FALSE>>} :
    GetPaths(q, o, host[1], host[2])

SpecList == InitList /\ [][NextList]_vars

Subscribe(t) ==
  [parses |-> TRUE, type |-> "subscribe", hasPaths |-> FALSE, paths |-> <<>>,
   path |-> t]

\* The broadcaster with one observer, the self bus and the HTTP fallback.
NextWs ==
  \/ Initialize(TRUE)
  \/ (clientIdCounter = 0 /\ Connect)
  \/ \E c \in ClientIds, m \in WSMessages, o \in TraversalOrders, api \in BOOLEAN :
       ClientMessage(c, m, o, api)
  \/ \E pf \in pendingFull, o \in TraversalOrders, ok \in BOOLEAN : FetchDone(pf, o, ok)
  \/ \E c \in ClientIds : Disconnect(c, "close", "CLOSED")
  \/ \E c \in ClientIds, st \in {"CLOSING", "CLOSED"} : Disconnect(c, "error", st)
  \/ ExternalDelta("nav.sog", Null, <<N2K>>, <<>>)
  \/ ExternalDelta("tanks.fuel", "v1", <<>>, <<N2K>>)
  \/ RootDelta("v1")

SpecWs == Init /\ [][NextWs]_vars

\* Change events fanned out to several observers with subscriptions of
\* their own.
NextFan ==
  \/ Initialize(TRUE)
  \/ Connect
  \/ \E c \in ClientIds, t \in {"nav.sog", Wildcard}, o \in TraversalOrders :
       ClientMessage(c, Subscribe(t), o, TRUE)
  \/ \E c \in ClientIds, o \in TraversalOrders :
       ClientMessage(c, [Garbage EXCEPT !.parses = TRUE, !.type = "unsubscribeAll"], o, TRUE)
  \/ \E pf \in pendingFull, o \in TraversalOrders : FetchDone(pf, o, TRUE)
  \/ \E c \in ClientIds : Disconnect(c, "close", "CLOSED")
  \/ ExternalDelta("nav.sog", "v1", <<N2K>>, <<>>)
  \/ ExternalDelta("tanks.fuel", "v1", <<>>, <<N2K>>)
  \/ RootDelta("v1")

SpecFan == Init /\ [][NextFan]_vars

\* Change events fanned out to observers some of whose sockets are closing.
NextClosing ==
  \/ Initialize(TRUE)
  \/ Connect
  \/ \E c \in ClientIds, t \in {"nav.sog", Wildcard}, o \in TraversalOrders :
       ClientMessage(c, Subscribe(t), o, TRUE)
  \/ \E pf \in pendingFull, o \in TraversalOrders : FetchDone(pf, o, TRUE)
  \/ \E c \in ClientIds : SocketClosing(c)
  \/ \E c \in ClientIds : Disconnect(c, "close", "CLOSED")
  \/ ExternalDelta("nav.sog", "v1", <<N2K>>, <<>>)
  \/ ExternalDelta("tanks.fuel", "v1", <<>>, <<N2K>>)

SpecClosing == Init /\ [][NextClosing]_vars

\* What the observers of NextObs send.
ObsMessages ==
  { Garbage, Subscribe("nav.sog"),
    [Subscribe("nav.sog") EXCEPT !.type = "unsubscribe"],
    [Subscribe("") EXCEPT !.type = "unsubscribeAll"] }

\* Several observers next to everything else that goes on: connects and
\* disconnects, changes of the tree, injections and interceptor operations.
NextObs ==
  \/ Initialize(TRUE)
  \/ Connect
  \/ \E c \in ClientIds, m \in ObsMessages, o \in TraversalOrders :
       ClientMessage(c, m, o, TRUE)
  \/ \E c \in ClientIds : Disconnect(c, "close", "CLOSED")
  \/ ExternalDelta("nav.sog", "v1", <<N2K>>, <<>>)
  \/ (calls = 0 /\ PutValue("nav.sog", "v1", NoSource, TRUE, TRUE))
  \/ TreeApply
  \/ (nextId = 0 /\ RegisterHandler("nav.sog", "true", TRUE))
  \/ (hasPutHandler("nav.sog") /\ UnregisterHandler("nav.sog"))

SpecObs == Init /\ [][NextObs]_vars

\* Upgrade requests for several targets before, during and after the
\* plugin's run.
NextUpgrade ==
  \/ \E b \in BOOLEAN : Initialize(b)
  \/ \E u \in UpgradeTargets : Upgrade(u)
  \/ \E c \in ClientIds, t \in {"nav.sog", Wildcard}, o \in TraversalOrders :
       ClientMessage(c, Subscribe(t), o, TRUE)
  \/ \E pf \in pendingFull, o \in TraversalOrders : FetchDone(pf, o, TRUE)
  \/ \E c \in ClientIds : Disconnect(c, "close", "CLOSED")
  \/ Stop

SpecUpgrade == Init /\ [][NextUpgrade]_vars

\* POST /paths with well-formed and malformed bodies.
NextCreate ==
  \/ Tick
  \/ \E p \in Paths \cup BadPaths \cup {""}, v \in {"v1", Null, Undefined},
        m \in Metas, e \in BOOLEAN, ok \in BOOLEAN :
       PostPaths(p, v, m, e, TRUE, "none", ok)
  \/ TreeApply

SpecCreate == Init /\ [][NextCreate]_vars

\* Everything but the notes store, the operation in flight and last.
notRes == <<mgrVars, injVars, treeVars, createdPaths, selfContext, now, createdBy, wsVars>>

\* saveScenario(scenario): the id is a fresh UUID; api: app.resourcesApi is
\* there; storeOk: setResource does not reject.
SaveScenario(id, name, api, storeOk) ==
  /\ ~notes[id].exists
  /\ pendingOp = NoOp
  /\ IF api /\ storeOk
       THEN /\ notes' = [notes EXCEPT ![id] =
                           ScenarioNote([id |-> "", name |-> name,
                                         createdAt |-> now, updatedAt |-> now])]
            /\ last' = [NoLast EXCEPT !.op = "saveScenario", !.id = id, !.out = "id",
                                      !.storeCall = "setResource"]
       ELSE /\ notes' = notes
            /\ last' = [NoLast EXCEPT !.op = "saveScenario", !.id = id, !.out = "threw",
                                      !.storeCall = IF api THEN "setResource" ELSE ""]
  /\ UNCHANGED <<notRes, pendingOp>>

\* getScenario(id)
GetScenario(id, api) ==
  /\ last' = [NoLast EXCEPT !.op = "getScenario", !.id = id,
                            !.out = IF ~api THEN "threw"
                                    ELSE IF getScenario(notes[id], id) = <<>> THEN "null"
                                    ELSE "scenario",
                            !.scenario = IF api THEN getScenario(notes[id], id) ELSE <<>>,
                            !.storeCall = IF api THEN "getResource" ELSE ""]
  /\ UNCHANGED <<notRes, resVars>>

\* updateScenario(id, scenario) up to the end of `await this.getScenario(id)`:
\* it throws 'Scenario not found', or goes on with what it read.
UpdateScenario(id, patch, api) ==
  /\ pendingOp = NoOp
  /\ LET existing == getScenario(notes[id], id)
     IN IF ~api \/ existing = <<>>
          THEN /\ pendingOp' = pendingOp
               /\ last' = [NoLast EXCEPT
                             !.op = "updateScenario", !.id = id, !.out = "threw",
                             !.storeCall = IF api THEN "getResource" ELSE ""]
          ELSE /\ pendingOp' = [kind |-> "update", id |-> id, existing |-> existing,
                                patch |-> patch]
               /\ last' = [NoLast EXCEPT !.op = "updateScenario", !.id = id,
                                         !.out = "pending", !.scenario = existing,
                                         !.storeCall = "getResource"]
  /\ UNCHANGED <<notRes, notes>>

\* The rest of updateScenario: setResource(RESOURCE_TYPE, id, noteData)
UpdateScenarioWrite(storeOk) ==
  /\ pendingOp.kind = "update"
  /\ notes' = IF storeOk
                THEN [notes EXCEPT ![pendingOp.id] =
                        ScenarioNote(updatedScenario(pendingOp.existing[1],
                                                     pendingOp.patch, now))]
                ELSE notes
  /\ pendingOp' = NoOp
  /\ last' = [NoLast EXCEPT !.op = "updateScenarioWrite", !.id = pendingOp.id,
                            !.out = IF storeOk THEN "void" ELSE "threw",
                            !.storeCall = "setResource"]
  /\ UNCHANGED notRes

\* deleteScenario(id) up to the end of `await this.getScenario(id)`: it
\* returns false, or goes on.
DeleteScenario(id, api) ==
  /\ pendingOp = NoOp
  /\ LET existing == getScenario(notes[id], id)
     IN IF ~api \/ existing = <<>>
          THEN /\ pendingOp' = pendingOp
               /\ last' = [NoLast EXCEPT
                             !.op = "deleteScenario", !.id = id,
                             !.out = IF api THEN "false" ELSE "threw",
                             !.storeCall = IF api THEN "getResource" ELSE ""]
          ELSE /\ pendingOp' = [kind |-> "delete", id |-> id, existing |-> existing,
                                patch |-> ""]
               /\ last' = [NoLast EXCEPT !.op = "deleteScenario", !.id = id,
                                         !.out = "pending", !.scenario = existing,
                                         !.storeCall = "getResource"]
  /\ UNCHANGED <<notRes, notes>>

\* The rest of deleteScenario: deleteResource(RESOURCE_TYPE, id), true when
\* it resolves and false when it rejects.
DeleteScenarioRemove(storeOk) ==
  /\ pendingOp.kind = "delete"
  /\ notes' = IF storeOk THEN [notes EXCEPT ![pendingOp.id] = NoNote] ELSE notes
  /\ pendingOp' = NoOp
  /\ last' = [NoLast EXCEPT !.op = "deleteScenarioRemove", !.id = pendingOp.id,
                            !.out = IF storeOk THEN "true" ELSE "false",
                            !.storeCall = "deleteResource"]
  /\ UNCHANGED notRes

\* Another user of the host's notes store writes a note of its own under
\* an id, or deletes what is there.
ForeignStore(id, note) ==
  /\ note \in ForeignNotes \cup {NoNote}
  /\ notes[id] # note
  /\ notes' = [notes EXCEPT ![id] = note]
  /\ last' = [NoLast EXCEPT !.op = "foreignStore", !.id = id]
  /\ UNCHANGED <<notRes, pendingOp>>

\* The scenario operations on a notes store that others use too.
NextRes ==
  \/ Tick
  \/ \E i \in NoteIds, n \in ScenarioNames, api \in BOOLEAN, ok \in BOOLEAN :
       SaveScenario(i, n, api, ok)
  \/ \E i \in NoteIds, api \in BOOLEAN : GetScenario(i, api)
  \/ \E i \in NoteIds, p \in ScenarioNames \cup {""}, api \in BOOLEAN :
       UpdateScenario(i, p, api)
  \/ \E ok \in BOOLEAN : UpdateScenarioWrite(ok)
  \/ \E i \in NoteIds, api \in BOOLEAN : DeleteScenario(i, api)
  \/ \E ok \in BOOLEAN : DeleteScenarioRemove(ok)
  \/ \E i \in NoteIds, n \in ForeignNotes \cup {NoNote} : ForeignStore(i, n)

SpecRes == Init /\ [][NextRes]_vars

\* plugin.stop against registered interceptors, connected observers and a
\* tree that goes on changing.
NextStop ==
  \/ \E b \in BOOLEAN : Initialize(b)
  \/ Connect
  \/ \E c \in ClientIds, o \in TraversalOrders : ClientMessage(c, Subscribe(Wildcard), o, TRUE)
  \/ \E pf \in pendingFull, o \in TraversalOrders : FetchDone(pf, o, TRUE)
  \/ \E c \in ClientIds : Disconnect(c, "close", "CLOSED")
  \/ \E p \in Paths : RegisterHandler(p, "true", TRUE)
  \/ Stop
  \/ ExternalDelta("nav.sog", "v1", <<N2K>>, <<>>)

SpecStop == Init /\ [][NextStop]_vars

\* The interceptor registry driven by direct callers and by POST /puts.
NextPuts ==
  \/ Tick
  \/ \E p \in Paths, a \in AcceptOptions, ok \in BOOLEAN : RegisterHandler(p, a, ok)
  \/ \E p \in Paths \cup {""}, a \in AcceptOptions, ok \in BOOLEAN : PostPuts(p, a, ok)
  \/ \E p \in Paths : UnregisterHandler(p)
  \/ UnregisterAll

SpecPuts == Init /\ [][NextPuts]_vars

\* What an observer that only subscribes and unsubscribes sends.
SubMessages ==
  { Subscribe(t) : t \in SubTokens }
  \cup { [Subscribe("") EXCEPT !.hasPaths = TRUE, !.paths = <<"nav.sog", "tanks.fuel">>] }
  \cup { [Subscribe(t) EXCEPT !.type = "unsubscribe"] : t \in {"nav.sog", Wildcard} }
  \cup { [Subscribe("") EXCEPT !.type = "unsubscribe", !.hasPaths = TRUE,
                               !.paths = <<"nav.sog", "tanks.fuel">>],
         [Subscribe("") EXCEPT !.type = "unsubscribeAll"] }

\* One observer that subscribes and unsubscribes while the tree changes.
NextSub ==
  \/ Initialize(TRUE)
  \/ (clientIdCounter = 0 /\ Connect)
  \/ \E c \in ClientIds, m \in SubMessages, o \in TraversalOrders, api \in BOOLEAN :
       ClientMessage(c, m, o, api)
  \/ \E pf \in pendingFull, o \in TraversalOrders : FetchDone(pf, o, TRUE)
  \/ \E v \in {"v1", Null} : ExternalDelta("nav.sog", v, <<N2K>>, <<>>)
  \/ ExternalDelta("tanks.fuel", "v1", <<>>, <<N2K>>)

SpecSub == Init /\ [][NextSub]_vars

\* The flattening walk over nested vessel data.
NextWalk == \E d \in Docs : ExtractPaths(d)

SpecWalk == Init /\ [][NextWalk]_vars

\* ----------------------------------------------------------------- claims
RecordsOf(p)      == {i \in 1..Len(handlers) : handlers[i].key = p}
CapabilitiesOf(p) == {i \in 1..Len(unregisterFunctions) : unregisterFunctions[i].key = p}
InstalledFor(p)   == {h \in hostPut : h.path = p}
Occurrences(seq, x) == Cardinality({i \in 1..Len(seq) : seq[i] = x})
RegisterOps == {"register", "postPathsPut"}

\* C1: in every reachable state each path has at most one bookkeeping record
\* and at most one interceptor installed with the host and not deregistered.
C1_AtMostOneInterceptor ==
  \A p \in Paths :
    /\ Cardinality(RecordsOf(p)) <= 1
    /\ Cardinality(CapabilitiesOf(p)) <= 1
    /\ Cardinality(InstalledFor(p)) <= 1

\* A register call has just returned for a path whose record is older than
\* the call: the path was registered already, and is installed once.
C1_Witness ==
  /\ last.op = "register"
  /\ last.out = "void"
  /\ MapHas(handlers, last.path)
  /\ MapVal(handlers, last.path).registeredAt < now
  /\ Cardinality(InstalledFor(last.path)) = 1

\* C2: register(p, options) while p is registered changes nothing: the
\* record (registeredAt, acceptAllSources) stays, the host's install is not
\* invoked again, the stored capability stays, whatever options says.
C2_ReRegisterIsNoOp ==
  [][\A p \in Paths :
       (MapHas(handlers, p) /\ last'.op \in RegisterOps /\ last'.path = p)
         => /\ handlers' = handlers
            /\ unregisterFunctions' = unregisterFunctions
            /\ hostPut' = hostPut
            /\ nextId' = nextId
            /\ last'.out # "threw"]_vars

\* POST /paths with enablePut (acceptAllSources: true) has just succeeded on
\* a path registered earlier with acceptAllSources false; the record stayed.
C2_Witness ==
  /\ last.op = "postPathsPut"
  /\ last.out = "201"
  /\ MapHas(handlers, last.path)
  /\ ~MapVal(handlers, last.path).acceptAllSources
  /\ MapVal(handlers, last.path).registeredAt < now

\* C3: unregister(p) for a path that is not registered returns false and
\* changes neither the bookkeeping nor the host: no capability is invoked.
C3_UnregisterUnknown ==
  [][\A p \in Paths :
       (~MapHas(handlers, p) /\ last'.op = "unregister" /\ last'.path = p)
         => /\ last'.out = "false"
            /\ UNCHANGED mgrVars]_vars

\* unregister has just returned false while another path is registered.
C3_Witness ==
  /\ last.op = "unregister"
  /\ last.out = "false"
  /\ handlers # <<>>
  /\ hostPut # {}

\* C4: unregister(p) for a registered path invokes p's capability exactly
\* once, removes p's bookkeeping and returns true; afterwards has(p) is
\* false, get(p) absent, list() without p, every other record unchanged.
C4_UnregisterRegistered ==
  [][\A p \in Paths :
       (MapHas(handlers, p) /\ last'.op = "unregister" /\ last'.path = p)
         => /\ last'.out = "true"
            /\ unregLog' = Append(unregLog, MapVal(unregisterFunctions, p))
            /\ hostPut' = {h \in hostPut : h.id # MapVal(unregisterFunctions, p)}
            /\ ~MapHas(handlers', p)
            /\ ~MapHas(unregisterFunctions', p)
            /\ \A i \in 1..Len(handlers') : handlers'[i].val.path # p
            /\ \A q \in Paths \ {p} :
                 /\ MapHas(handlers', q) = MapHas(handlers, q)
                 /\ MapHas(handlers, q) =>
                      /\ MapVal(handlers', q) = MapVal(handlers, q)
                      /\ MapVal(unregisterFunctions', q) = MapVal(unregisterFunctions, q)]_vars

\* unregister has just returned true and left another path registered.
C4_Witness ==
  /\ last.op = "unregister"
  /\ last.out = "true"
  /\ ~MapHas(handlers, last.path)
  /\ handlers # <<>>
  /\ unregLog # <<>>

\* C5: after teardownAll no path is registered and the capability of every
\* path registered at the call has been invoked exactly once; with nothing
\* registered it changes nothing.
C5_TeardownAll ==
  [][last'.op = "unregisterAll"
       => /\ handlers' = <<>>
          /\ unregisterFunctions' = <<>>
          /\ hostPut' = {}
          /\ Len(unregLog') = Len(unregLog) + Len(handlers)
          /\ \A i \in 1..Len(unregisterFunctions) :
               Occurrences(unregLog', unregisterFunctions[i].val)
                 = Occurrences(unregLog, unregisterFunctions[i].val) + 1
          /\ handlers = <<>> => UNCHANGED mgrVars]_vars

\* teardownAll has just run with two paths registered.
C5_Witness ==
  /\ last.op = "unregisterAll"
  /\ last.count = 2
  /\ handlers = <<>>
  /\ Len(unregLog) >= 2

Completed == [state |-> "COMPLETED", statusCode |-> 200, message |-> FALSE]
Failed    == [state |-> "FAILED", statusCode |-> 500, message |-> TRUE]

\* C6: an invoked interceptor reports COMPLETED/200 when the injector
\* succeeds and FAILED/500 with a message when the injector raises; the
\* result it returns is the one handed to the callback.
C6_InterceptorReportsOutcome ==
  last.op = "put" =>
    /\ last.result = IF last.call.submitted THEN Completed ELSE Failed
    /\ \A i \in 1..Len(last.callbacks) : last.callbacks[i] = last.result
    /\ Len(last.callbacks) <= 1

\* k copies of the suffix, one after the other.
RECURSIVE Suffixes(_)
Suffixes(k) == IF k = 0 THEN <<>> ELSE Suffixes(k - 1) \o whatifSuffix

\* label is base + suffix, where source is base followed by suffixes only
\* and base does not end in the suffix.
IsStrippedPlusSuffix(label, source) ==
  \E k \in 0..Len(source) :
    /\ 2 * k <= Len(source)
    /\ LET base == SubSeq(source, 1, Len(source) - 2 * k)
       IN /\ source = base \o Suffixes(k)
          /\ ~EndsWith(base, whatifSuffix)
          /\ label = base \o <<Dot, SOURCE_LABEL>>

DerivedOrigins == {"derived", "bareDerived"}

\* C7: an inject without explicit source that reads the stored label S
\* submits strip(S) + ".whatif-helper"; when S was itself written by such an
\* inject, the label submitted is S again: one inject or many give the same.
C7_DerivedLabelIdempotent ==
  (last.call.origin \in DerivedOrigins /\ last.call.submitted) =>
    /\ bus[Len(bus)].source = last.call.label
    /\ IsStrippedPlusSuffix(last.call.label, last.call.readSrc)
    /\ last.call.prev \in DerivedOrigins => last.call.label = last.call.readSrc

\* A second inject in a row has been submitted after reading the label the
\* first one wrote, which the first had derived from the source it read.
C7_Witness ==
  /\ last.call.origin = "derived"
  /\ last.call.prev = "derived"
  /\ last.call.submitted
  /\ last.call.readSrc = <<N2K, Dot, SOURCE_LABEL>>
  /\ last.call.n = 2

SuffixCount(label) == Cardinality({i \in 1..Len(label) : label[i] = SOURCE_LABEL})

\* C8: with no current source in the tree an inject without explicit source
\* labels the event "whatif-helper", and over further such injects, each
\* reading what the previous one stored, the label never holds the suffix
\* more than once.
C8_BareLabelNeverRepeats ==
  last.call.submitted =>
    /\ last.call.origin = "bare" => bus[Len(bus)].source = BareLabel
    /\ last.call.origin \in {"bare", "bareDerived"} =>
         SuffixCount(bus[Len(bus)].source) <= 1

\* C9 as stated: whatever explicit source is given, it is the label.
C9_ExplicitSourceAlwaysVerbatim ==
  (last.call.n # 0 /\ last.call.explicit.given) =>
    /\ last.call.label = last.call.explicit.text
    /\ ~last.call.consulted

\* C9: inject with a non-empty explicit source submits exactly that label,
\* nothing stripped or appended, and does not consult the tree.
C9_ExplicitSourceVerbatim ==
  (last.call.n # 0 /\ last.call.explicit.given /\ last.call.explicit.text # <<>>) =>
    /\ last.call.label = last.call.explicit.text
    /\ ~last.call.consulted
    /\ last.call.readSrc = <<>>
    /\ last.call.submitted =>
         /\ bus # <<>>
         /\ bus[Len(bus)].source = last.call.explicit.text

\* An explicit source that already ends in the suffix has been submitted for
\* a path whose label in the tree is another one.
C9_Witness ==
  /\ last.call.explicit = [given |-> TRUE, text |-> <<N2K, Dot, SOURCE_LABEL>>]
  /\ last.call.submitted
  /\ tree[last.call.path].present
  /\ CurrentSource(tree[last.call.path]) = <<SOURCE_LABEL>>

ValuesAt(p) == {i \in 1..Len(bus) : bus[i].kind = "values" /\ bus[i].path = p}

\* C10: for one path, the deltas of any two inject calls reach the change
\* bus in the order of the calls: in the queue and against what the tree
\* has applied already.
C10_SubmittedInCallOrder ==
  \A p \in Paths :
    /\ \A i, j \in ValuesAt(p) : i < j => bus[i].call < bus[j].call
    /\ \A i \in ValuesAt(p) : appliedCall[p] < bus[i].call

\* Two injects on one path are on the bus, the later one made by an
\* interceptor, with a read-back pending.
C10_Witness ==
  /\ last.op = "put"
  /\ Cardinality(ValuesAt(last.call.path)) = 2
  /\ timers > 0

\* C11: once a create(path, value, meta?) has succeeded, with or without
\* meta, isCreated(path) is true and listCreated() holds path, and stays so.
C11_CreatedIsListed ==
  \A p \in Paths :
    createdBy[p].ever =>
      /\ isCreatedPath(p)
      /\ \E i \in 1..Len(getCreatedPaths) : getCreatedPaths[i] = p

\* C12: a read of p, made when the latest create(p, v, m) has completed and
\* the tree holds the value that create submitted, gives a snapshot whose
\* value is v and whose meta has every key of m with m's value.
C12_CreateReadRoundTrip ==
  (/\ last.op = "getPath"
   /\ last.snap.leaf = ""
   /\ createdBy[last.path].resolved
   /\ appliedCall[last.path] = createdBy[last.path].n
   /\ writer[last.path] # "external")
    => /\ last.out = "snapshot"
       /\ last.snap.value = createdBy[last.path].value
       /\ createdBy[last.path].meta.kv \subseteq last.snap.meta
       /\ createdBy[last.path].meta.given => last.snap.hasMeta

\* A path created with units "ratio" has been read while the tree's own
\* metadata names other units for it.
C12_Witness ==
  /\ last.op = "getPath"
  /\ last.snap.leaf = ""
  /\ createdBy[last.path].resolved
  /\ createdBy[last.path].meta.given
  /\ appliedCall[last.path] = createdBy[last.path].n
  /\ writer[last.path] # "external"
  /\ <<"units", "m/s">> \in treeMeta[last.path]
  /\ <<"units", "ratio">> \in last.snap.meta

\* C13: read(path) never raises, whatever the tree holds (a null datum and a
\* bare value included): it gives a snapshot or not-found, and not-found
\* exactly when the tree has no entry for path.
C13_ReadNeverRaises ==
  last.op = "getPath" =>
    /\ last.out \in {"snapshot", "notFound"}
    /\ last.out = "notFound"
         <=> getSelfPath(last.path, last.snap.leaf).kind = "undefined"

\* The path of info holds the search text, letters compared without case.
MatchesSearch(info, search) ==
  LET t == Text(info.path)
      q == Text(search)
  IN \E k \in 0..Len(t) :
       /\ k + Len(q) <= Len(t)
       /\ \A j \in 1..Len(q) : LowerChar(t[k + j]) = LowerChar(q[j])

\* What one field of the filter keeps: 1 search, 2 hasValue, 3 hasMeta,
\* 4 baseUnit.
KeptBy(field, info, filter) ==
  CASE field = 1 -> filter.search # "" => MatchesSearch(info, filter.search)
    [] field = 2 -> filter.hasValue => info.value \notin {Null, Undefined}
    [] field = 3 -> filter.hasMeta => info.hasMeta
    [] field = 4 -> filter.baseUnit # "" => <<"units", filter.baseUnit>> \in info.meta

\* The list kept by the fields in the order perm, one after the other.
RECURSIVE FilteredIn(_, _, _)
FilteredIn(list, perm, filter) ==
  IF perm = <<>>
    THEN list
    ELSE FilteredIn(SelectSeq(list, LAMBDA i : KeptBy(Head(perm), i, filter)),
                    Tail(perm), filter)

FieldOrders ==
  {f \in [1..4 -> 1..4] : \A i, j \in 1..4 : i # j => f[i] # f[j]}

\* C14: for a fixed tree list(filter) is list() cut down to the snapshots
\* every field of the filter keeps (search: path holds the text whatever the
\* case; hasValue: value not null or undefined; hasMeta: has metadata;
\* baseUnit: meta.units equal to it), in whatever order the fields are applied.
C14_FilterIsIntersection ==
  last.op = "getPaths" =>
    \A o \in TraversalOrders :
      LET all == getAllPaths(NoFilter, o, last.host[1], last.host[2])
      IN /\ last.list = SelectSeq(all, LAMBDA i :
                          \A field \in 1..4 : KeptBy(field, i, last.filter))
         /\ \A perm \in FieldOrders : FilteredIn(all, perm, last.filter) = last.list

\* A search for "tm" with hasValue set has kept env.tMax alone out of a tree
\* of three listed paths.
C14_Witness ==
  /\ last.op = "getPaths"
  /\ last.filter.search = "tm"
  /\ last.filter.hasValue
  /\ Len(last.list) = 1
  /\ last.list[1].path = "env.tMax"
  /\ \A p \in ListPaths : tree[p].present
  /\ last.host[1]

InboxOf(c) == sockets[c].inbox

EventInfo(e) ==
  [path |-> e.path, value |-> e.value, timestamp |-> e.timestamp,
   source |-> IF e.dsource # <<>> THEN e.dsource ELSE e.slabel]

\* C16: a change event with a non-empty path p that reaches the listener is
\* delivered as exactly one update, carrying its path, value, timestamp and
\* source, to every connected, writable observer subscribed to p or to '*',
\* and to no other observer.
C16_FanOut ==
  [][(events' = events + 1 /\ last'.event.path # "") =>
       \A c \in ClientIds :
         IF /\ c \in clients
            /\ sockets[c].readyState = "OPEN"
            /\ \/ SetHas(subscriptions[c], last'.event.path)
               \/ SetHas(subscriptions[c], Wildcard)
           THEN sockets'[c].inbox =
                  Append(sockets[c].inbox, UpdateMsg(EventInfo(last'.event), events'))
           ELSE sockets'[c].inbox = sockets[c].inbox]_vars

\* An event on tanks.fuel has been delivered to one observer and not to
\* another one that is connected and subscribed to nav.sog only.
C16_Witness ==
  /\ last.op = "external"
  /\ last.event.path = "tanks.fuel"
  /\ \E c, d \in clients :
       /\ sockets[c].readyState = "OPEN"
       /\ sockets[d].readyState = "OPEN"
       /\ InboxOf(c)[Len(InboxOf(c))].ev = events
       /\ subscriptions[d] = <<"nav.sog">>
       /\ \A i \in 1..Len(InboxOf(d)) : InboxOf(d)[i].type # "update"

\* C17: a subscribe of a connected observer is answered by exactly one full,
\* and nothing else is delivered to that observer between the subscribe and
\* its full.
C17_FullFollowsSubscribe ==
  [][/\ (/\ last'.op = "message"
         /\ last'.msg.parses
         /\ last'.msg.type = "subscribe"
         /\ sockets[last'.client].readyState = "OPEN")
          => \/ sockets'[last'.client].inbox =
                  Append(sockets[last'.client].inbox,
                         FullMsg(sockets'[last'.client].inbox[Len(sockets'[last'.client].inbox)].paths,
                                 last'.re))
             \/ /\ sockets'[last'.client].inbox = sockets[last'.client].inbox
                /\ \E pf \in pendingFull' \ pendingFull :
                     pf.client = last'.client /\ pf.re = last'.re
     /\ \A pf \in pendingFull :
          sockets'[pf.client].inbox # sockets[pf.client].inbox
            => /\ last'.op = "fetchDone"
               /\ last'.client = pf.client
               /\ last'.re <= pf.re]_vars

\* C18: a message that does not parse, or whose type is none of subscribe,
\* unsubscribe, unsubscribeAll, gets exactly one error reply; the observer
\* stays connected and registered, the subscriptions stay, nothing else
\* changes.
C18_MalformedGetsError ==
  [][(/\ last'.op = "message"
      /\ \/ ~last'.msg.parses
         \/ last'.msg.type \notin {"subscribe", "unsubscribe", "unsubscribeAll"})
       => /\ sockets[last'.client].readyState = "OPEN" =>
               /\ Len(sockets'[last'.client].inbox) = Len(sockets[last'.client].inbox) + 1
               /\ sockets'[last'.client].inbox =
                    Append(sockets[last'.client].inbox,
                           ErrorMsg(IF last'.msg.parses THEN "Unknown message type"
                                                        ELSE "Invalid message format",
                                    last'.re))
          /\ sockets'[last'.client].readyState = sockets[last'.client].readyState
          /\ \A d \in ClientIds \ {last'.client} : sockets'[d] = sockets[d]
          /\ clients' = clients
          /\ subscriptions' = subscriptions
          /\ pendingFull' = pendingFull]_vars

\* An observer's subscribe has been answered by a full right after its first
\* message, which did not parse, was answered by an error.
C18_Witness ==
  /\ last.op = "message"
  /\ last.msg.type = "subscribe"
  /\ last.re = 2
  /\ last.client \in clients
  /\ Len(InboxOf(last.client)) = 3
  /\ InboxOf(last.client)[2] = ErrorMsg("Invalid message format", 1)
  /\ InboxOf(last.client)[3].type = "full"
  /\ InboxOf(last.client)[3].re = 2

\* C19: a disconnect (close or error) takes the observer out of the observer
\* set, and an observer that is out of the set is sent nothing more, the
\* full of a subscribe still in the works included.
C19_NoSendAfterDisconnect ==
  [][/\ last'.op = "disconnect" => last'.client \notin clients'
     /\ \A c \in ClientIds :
          (c \notin clients /\ c <= clientIdCounter)
            => /\ sockets'[c].inbox = sockets[c].inbox
               /\ c \notin clients']_vars

\* The fetch of a wildcard subscribe has ended after its observer
\* disconnected: the full was not sent.
C19_Witness ==
  /\ last.op = "fetchDone"
  /\ last.client \notin clients
  /\ sockets[last.client].readyState \in {"CLOSING", "CLOSED"}
  /\ SetHas(subscriptions[last.client], Wildcard)
  /\ ~stopped
  /\ \A i \in 1..Len(InboxOf(last.client)) : InboxOf(last.client)[i].re # last.re

UpdatesIn(inbox) == Cardinality({i \in 1..Len(inbox) : inbox[i].type = "update"})

\* C20: stop leaves the interceptor registry empty with every capability
\* invoked once, the observer set empty and the bus listener cancelled, and
\* returns normally, initialized or not, registered or not; after it no
\* change event reaches the listener and no update is delivered.
C20_StopTearsDown ==
  [][/\ last'.op = "stop"
          => /\ last'.out = "void"
             /\ handlers' = <<>>
             /\ unregisterFunctions' = <<>>
             /\ hostPut' = {}
             /\ \A i \in 1..Len(unregisterFunctions) :
                  Occurrences(unregLog', unregisterFunctions[i].val)
                    = Occurrences(unregLog, unregisterFunctions[i].val) + 1
             /\ clients' = {}
             /\ ~feed'
             /\ deltaUnsubscribe' = "null"
             /\ wss' = "null"
     /\ stopped
          => /\ clients' = {}
             /\ ~feed'
             /\ events' = events
             /\ \A c \in ClientIds :
                  UpdatesIn(sockets'[c].inbox) = UpdatesIn(sockets[c].inbox)]_vars

\* After a stop that tore down an interceptor and closed a wildcard
\* subscriber's socket, another provider's delta has reached the tree.
C20_Witness ==
  /\ stopped
  /\ last.op = "external"
  /\ unregLog # <<>>
  /\ \E c \in ClientIds :
       /\ SetHas(subscriptions[c], Wildcard)
       /\ sockets[c].readyState = "CLOSING"

\* The node of doc that the keys ks lead to, and the keys joined by dots.
RECURSIVE Resolve(_, _)
Resolve(doc, ks) ==
  IF ks = <<>>
    THEN doc
    ELSE IF doc.kind = "object"
      THEN Resolve(ChildOf(doc, Head(ks)), Tail(ks))
      ELSE NoDoc
RECURSIVE DotJoin(_)
DotJoin(ks) ==
  IF Len(ks) <= 1 THEN ks ELSE <<Head(ks), Dot>> \o DotJoin(Tail(ks))
WalkKeys == skipProps \cup {"value", "nav", "a"}
KeySeqs  == UNION {[1..n -> WalkKeys] : n \in 0..3}
\* The objects with a value key that are reached from the root through keys
\* that are neither skipped nor `value`.
DataNodes(doc) ==
  {ks \in KeySeqs :
     /\ \A i \in 1..Len(ks) : ks[i] \notin skipProps \cup {"value"}
     /\ Resolve(doc, ks).kind = "object"
     /\ HasKey(Resolve(doc, ks), "value")}

\* C28: the walk emits one snapshot for each object that has a value key and
\* is reached from the root through keys that are neither skipped nor
\* `value`, under the dot-joined keys leading to it; it emits no other
\* snapshot and no path twice.
C28_WalkEmitsDataNodes ==
  last.op = "extractPaths" =>
    /\ {last.list[i].path : i \in 1..Len(last.list)}
         = {DotJoin(ks) : ks \in DataNodes(last.doc)}
    /\ \A i, j \in 1..Len(last.list) :
         i # j => last.list[i].path # last.list[j].path
    /\ \A i \in 1..Len(last.list) :
         \E ks \in DataNodes(last.doc) :
           /\ last.list[i].path = DotJoin(ks)
           /\ last.list[i].value = ChildOf(Resolve(last.doc, ks), "value")

\* The walk has emitted the root, nav and nav.a of a document whose nav also
\* holds an object with a value below its value key and below a skipped key.
C28_Witness ==
  /\ last.op = "extractPaths"
  /\ [i \in 1..Len(last.list) |-> last.list[i].path]
       = << <<>>, <<"nav">>, <<"nav", Dot, "a">> >>
  /\ ChildOf(ChildOf(last.doc, "nav"), "value") = ValObj
  /\ ChildOf(ChildOf(last.doc, "nav"), "meta") = ValObj

\* The two lifecycle states of a path.
Registered(p) ==
  /\ Cardinality(RecordsOf(p)) = 1
  /\ Cardinality(CapabilitiesOf(p)) = 1
  /\ Cardinality(InstalledFor(p)) = 1
  /\ \A h \in InstalledFor(p) : h.id = MapVal(unregisterFunctions, p)
Unregistered(p) ==
  /\ RecordsOf(p) = {}
  /\ CapabilitiesOf(p) = {}
  /\ InstalledFor(p) = {}
RegisterRequests == {"register", "postPuts"}

\* C21 as stated: a register request for a path that has an interceptor
\* keeps the registration and gives the requester, direct caller or POST
\* /puts, no failure outcome.
C21_ConflictSilentlyRefused ==
  [][\A p \in Paths :
       (/\ MapHas(handlers, p)
        /\ last'.op \in RegisterRequests
        /\ last'.path = p)
         => /\ <<handlers, unregisterFunctions, hostPut, nextId, unregLog>>'
                 = <<handlers, unregisterFunctions, hostPut, nextId, unregLog>>
            /\ last'.out \in {"void", "201"}]_vars

\* C21: a register request for a path that has an interceptor keeps the
\* registration; the direct caller of registerHandler returns normally, the
\* requester of POST /puts is answered 409.
C21_ConflictRefused ==
  [][\A p \in Paths :
       (/\ MapHas(handlers, p)
        /\ last'.op \in RegisterRequests
        /\ last'.path = p)
         => /\ <<handlers, unregisterFunctions, hostPut, nextId, unregLog>>'
                 = <<handlers, unregisterFunctions, hostPut, nextId, unregLog>>
            /\ last'.out = IF last'.op = "register" THEN "void" ELSE "409"]_vars

\* POST /puts for a registered path, asking for another acceptAllSources
\* than the record holds, has been answered 409.
C21_Witness ==
  /\ last.op = "postPuts"
  /\ last.out = "409"
  /\ Registered(last.path)
  /\ MapVal(handlers, last.path).acceptAllSources # (last.accept = "true")

\* C22: each path is either unregistered or registered; it becomes registered
\* only by a register request for it, which installs an interceptor the host
\* has not seen before and stores a record with the time and the
\* acceptAllSources of that request; it becomes unregistered only by
\* unregister of it or by unregisterAll; while registered its record,
\* capability and interceptor stay the same.
C22_TwoStateLifecycle ==
  /\ [](\A p \in Paths : Registered(p) \/ Unregistered(p))
  /\ [][\A p \in Paths :
          /\ (Unregistered(p) /\ ~Unregistered(p)')
               => /\ last'.op \in RegisterRequests
                  /\ last'.path = p
                  /\ last'.out \in {"void", "201"}
                  /\ nextId' = nextId + 1
                  /\ InstalledFor(p)' = {h \in hostPut' : h.id = nextId'}
                  /\ \A i \in 1..Len(unregLog) : unregLog[i] # nextId'
                  /\ MapVal(handlers', p) =
                       [path |-> p, registeredAt |-> now',
                        acceptAllSources |-> (last'.accept = "true")]
          /\ (Registered(p) /\ ~Registered(p)')
               => /\ Unregistered(p)'
                  /\ \/ last'.op = "unregister" /\ last'.path = p /\ last'.out = "true"
                     \/ last'.op = "unregisterAll"
          /\ (Registered(p) /\ Registered(p)')
               => /\ MapVal(handlers', p) = MapVal(handlers, p)
                  /\ MapVal(unregisterFunctions', p) = MapVal(unregisterFunctions, p)
                  /\ InstalledFor(p)' = InstalledFor(p)]_vars

\* A register after a deregistration: the second interceptor the host
\* installed, with a record of the later time and without acceptAllSources,
\* while the first one's capability has been invoked.
C22_Witness ==
  /\ last.op = "register"
  /\ last.out = "void"
  /\ Registered(last.path)
  /\ unregLog = <<1>>
  /\ MapVal(unregisterFunctions, last.path) = 2
  /\ MapVal(handlers, last.path) =
       [path |-> last.path, registeredAt |-> 1, acceptAllSources |-> FALSE]
  /\ \A q \in Paths \ {last.path} : Unregistered(q)

\* C24: a register request that installs an interceptor gives the host the
\* source filter 'whatif-helper' when acceptAllSources is false or omitted
\* and no source filter when it is true; the record of every installed
\* interceptor says acceptAllSources exactly when it has no source filter.
C24_FilterMatchesOption ==
  /\ [](\A h \in hostPut :
          /\ h.source \in {Undefined, SOURCE_LABEL}
          /\ MapHas(handlers, h.path)
          /\ MapVal(handlers, h.path).acceptAllSources = (h.source = Undefined))
  /\ [][\A h \in hostPut' \ hostPut :
          /\ last'.op \in RegisterRequests
          /\ last'.path = h.path
          /\ h.source = IF last'.accept = "true" THEN Undefined ELSE SOURCE_LABEL]_vars

\* Two interceptors are installed: one asked for with acceptAllSources true,
\* without source filter, and one asked for without the option, filtered.
C24_Witness ==
  /\ last.op \in RegisterRequests
  /\ last.accept = "omitted"
  /\ \E h, g \in hostPut :
       /\ h.path = last.path
       /\ h.source = SOURCE_LABEL
       /\ ~MapVal(handlers, h.path).acceptAllSources
       /\ g.source = Undefined
       /\ MapVal(handlers, g.path).acceptAllSources

\* C25 as stated: every installed interceptor has the context that
\* setValue addresses its deltas to.
C25_InstalledUnderInjectContext ==
  \A h \in hostPut : h.context = selfContext

\* C25: every interceptor is installed under 'vessels.self', whatever the
\* host's selfId; setValue addresses its deltas to `vessels.<selfId>` when
\* the host has a selfId and to 'vessels.self' when it has none.
C25_InstalledUnderVesselsSelf ==
  /\ \A h \in hostPut : h.context = VesselsSelf
  /\ \E id \in SelfIds :
       /\ selfContext = initSelfContext(id)
       /\ (selfContext = VesselsSelf) <=> (id = "")

\* An interceptor is installed while the host has a selfId.
C25_Witness ==
  /\ hostPut # {}
  /\ selfContext # VesselsSelf
  /\ \A h \in hostPut : h.context = VesselsSelf /\ h.context # selfContext

\* The label the derived-source rule gives for what the tree holds at q.
IsDerivedLabel(label, q) ==
  LET src == IF tree[q].present THEN CurrentSource(tree[q]) ELSE <<>>
  IN IF src = <<>> THEN label = BareLabel ELSE IsStrippedPlusSuffix(label, src)

\* C23: an interceptor registered for p and invoked with path q and value v
\* calls inject for q with v and no explicit source: the one delta it
\* submits carries q, v and the label derived from the source the tree holds
\* for q, and nothing is submitted for p when q differs from p.
C23_InterceptorInjectsAtInvocationPath ==
  [][last'.op = "put" =>
       /\ last'.call.path = last'.putPath
       /\ last'.call.explicit = NoSource
       /\ IsDerivedLabel(last'.call.label, last'.putPath)
       /\ IF last'.call.submitted
            THEN /\ Len(bus') = Len(bus) + 1
                 /\ SubSeq(bus', 1, Len(bus)) = bus
                 /\ bus'[Len(bus')].kind = "values"
                 /\ bus'[Len(bus')].path = last'.putPath
                 /\ bus'[Len(bus')].value = last'.value
                 /\ bus'[Len(bus')].source = last'.call.label
            ELSE bus' = bus
       /\ last'.putPath # last'.path =>
            \A i \in (Len(bus) + 1)..Len(bus') : bus'[i].path # last'.path]_vars

\* An interceptor registered for one path, whose tree entry names a source,
\* has been invoked with the other path, which the tree does not hold: the
\* delta on the bus is for the path of the invocation and carries the bare
\* label, not one derived from the source of the registered path.
C23_Witness ==
  /\ last.op = "put"
  /\ last.putPath # last.path
  /\ last.call.submitted
  /\ tree[last.path].present
  /\ CurrentSource(tree[last.path]) # <<>>
  /\ ~tree[last.putPath].present
  /\ bus # <<>>
  /\ bus[Len(bus)].path = last.putPath
  /\ bus[Len(bus)].value = last.value
  /\ bus[Len(bus)].source = BareLabel

ValueDeltas(b) == SelectSeq(b, LAMBDA d : d.kind = "values")
InjectOps == {"putValue", "put", "postPaths", "postPathsPut"}

\* C26: an inject call that the bus accepts submits exactly one
\* value-carrying delta, with the path and the value it was given, addressed
\* to the context derived at startup; a call the bus refuses submits none;
\* the context never changes and every submitted delta carries it.
C26_OneEventPerInject ==
  /\ [](\A i \in 1..Len(bus) : bus[i].context = selfContext)
  /\ [][/\ selfContext' = selfContext
        /\ (last'.op \in InjectOps /\ last'.call.n # 0) =>
             IF last'.call.submitted
               THEN /\ Len(ValueDeltas(bus')) = Len(ValueDeltas(bus)) + 1
                    /\ ValueDeltas(bus') =
                         Append(ValueDeltas(bus),
                                [bus'[Len(bus')] EXCEPT
                                   !.kind = "values",
                                   !.path = IF last'.op = "put" THEN last'.putPath
                                                                ELSE last'.path,
                                   !.value = last'.value,
                                   !.context = selfContext])
                    /\ bus'[Len(bus')].kind = "values"
               ELSE ValueDeltas(bus') = ValueDeltas(bus)]_vars

\* Two injects, the later one by PUT /value, are on the bus of a host that
\* has a selfId: both deltas are addressed to the vessel of that selfId.
C26_Witness ==
  /\ last.op = "putValue"
  /\ last.call.submitted
  /\ selfContext # VesselsSelf
  /\ Len(ValueDeltas(bus)) = 2
  /\ \A i \in 1..Len(bus) : bus[i].context = selfContext
  /\ bus[Len(bus)].path = last.path
  /\ bus[Len(bus)].value = last.value

KeysOf(kv) == {e[1] : e \in kv}

\* C27: the meta of a snapshot read for a path holds, for every key of the
\* registry's metadata for the path, the registry's value, for every other
\* key of the tree's metadata below the path, the tree's value, and no other
\* key; the snapshot has a meta field exactly when the tree or the registry
\* holds metadata for the path.
C27_ReadMergesMeta ==
  (last.op = "getPath" /\ last.snap.kind = "snapshot") =>
    LET p      == last.snap.path
        whole  == last.snap.leaf = ""
        treeKv == IF whole THEN treeMeta[p] ELSE {}
        regHas == whole /\ MapHas(createdPaths, p)
        regKv  == IF regHas THEN MapVal(createdPaths, p) ELSE {}
    IN /\ last.snap.hasMeta <=> (treeKv # {} \/ regHas)
       /\ ~last.snap.hasMeta => last.snap.meta = {}
       /\ KeysOf(last.snap.meta) = KeysOf(treeKv) \cup KeysOf(regKv)
       /\ \A e \in last.snap.meta :
            IF e[1] \in KeysOf(regKv) THEN e \in regKv ELSE e \in treeKv
       /\ \A e, f \in last.snap.meta : e[1] = f[1] => e = f

\* A read of a path whose tree metadata has units and a description and
\* whose registry metadata has other units: the snapshot carries the
\* registry's units and the tree's description.
C27_Witness ==
  /\ last.op = "getPath"
  /\ last.snap.kind = "snapshot"
  /\ last.snap.leaf = ""
  /\ treeMeta[last.snap.path] = {<<"units", "m/s">>, <<"description", "speed">>}
  /\ MapGetOr(createdPaths, last.snap.path, {}) = {<<"units", "ratio">>}
  /\ last.snap.meta = {<<"units", "ratio">>, <<"description", "speed">>}

\* The paths a message names.
NamedIn(msg) ==
  IF msg.hasPaths THEN {msg.paths[i] : i \in 1..Len(msg.paths)}
  ELSE IF msg.path # "" THEN {msg.path} ELSE {}
Inboxes == [c \in ClientIds |-> sockets[c].inbox]

\* C29: an unsubscribe takes exactly the paths it names out of the sender's
\* subscriptions and an unsubscribeAll leaves them empty; neither is answered
\* nor changes anything else; an observer without subscriptions is sent no
\* update.
C29_UnsubscribeRemovesNamed ==
  [][/\ (/\ last'.op = "message"
         /\ last'.msg.parses
         /\ last'.msg.type \in {"unsubscribe", "unsubscribeAll"})
          => /\ subscriptions'[last'.client] =
                  IF last'.msg.type = "unsubscribeAll"
                    THEN <<>>
                    ELSE SelectSeq(subscriptions[last'.client],
                                   LAMBDA x : x \notin NamedIn(last'.msg))
             /\ \A d \in ClientIds \ {last'.client} :
                  subscriptions'[d] = subscriptions[d]
             /\ Inboxes' = Inboxes
             /\ pendingFull' = pendingFull
             /\ clients' = clients
     /\ \A c \in ClientIds :
          subscriptions[c] = <<>> => UpdatesIn(sockets'[c].inbox) = UpdatesIn(sockets[c].inbox)]_vars

\* An observer that had subscribed to everything and then sent
\* unsubscribeAll is connected while the tree takes a change: it got the
\* full of its subscribe and no update.
C29_Witness ==
  /\ last.op = "external"
  /\ last.event.path = "nav.sog"
  /\ events = 1
  /\ \E c \in clients :
       /\ sockets[c].readyState = "OPEN"
       /\ sockets[c].sent = 2
       /\ subscriptions[c] = <<>>
       /\ \E i \in 1..Len(InboxOf(c)) : InboxOf(c)[i].type = "full" /\ InboxOf(c)[i].re = 1
       /\ UpdatesIn(InboxOf(c)) = 0

\* What the tree holds for a subscribed path.
TokenExists(t) ==
  IF t = NullablePath THEN tree["nav.sog"].present
  ELSE tree[t].present \/ treeMeta[t] # {}
TokenOf(snap) == IF snap.leaf = "" THEN snap.path ELSE NullablePath
\* paths holds one snapshot, with the tree's value, for each path in ts that
\* the tree holds, and no other.
CoversExactly(paths, ts) ==
  /\ \A i \in 1..Len(paths) :
       /\ TokenOf(paths[i]) \in ts
       /\ TokenExists(TokenOf(paths[i]))
       /\ tree[paths[i].path].present => paths[i].value = tree[paths[i].path].value
  /\ \A t \in ts :
       TokenExists(t) =>
         Cardinality({i \in 1..Len(paths) : TokenOf(paths[i]) = t}) = 1
NullSubscribed(subs) ==
  SetHas(subs, NullablePath) /\ tree["nav.sog"].present /\ tree["nav.sog"].value = Null

C39_WildcardOrdinaryMember ==
  [][/\ \A c \in ClientIds :
          (SetHas(subscriptions[c], Wildcard) /\ ~SetHas(subscriptions'[c], Wildcard))
            => /\ last'.op = "message"
               /\ last'.client = c
               /\ last'.msg.parses
               /\ \/ last'.msg.type = "unsubscribeAll"
                  \/ last'.msg.type = "unsubscribe" /\ Wildcard \in NamedIn(last'.msg)
     /\ (last'.op = "external" /\ events' = events + 1)
          => \A c \in clients :
               sockets[c].readyState = "OPEN"
                 => LET p    == last'.event.path
                        got  == UpdatesIn(sockets'[c].inbox) = UpdatesIn(sockets[c].inbox) + 1
                        none == sockets'[c].inbox = sockets[c].inbox
                    IN IF SetHas(subscriptions[c], Wildcard) \/ SetHas(subscriptions[c], p)
                         THEN /\ got
                              /\ sockets'[c].inbox[Len(sockets'[c].inbox)].update.path = p
                         ELSE none]_vars

\* An observer subscribed to '*', was answered, then unsubscribed from paths
\* that are not '*': it still holds '*' and is sent the update of a change
\* to nav.sog.
C39_Witness ==
  /\ last.op = "external"
  /\ last.event.path = "nav.sog"
  /\ pendingFull = {}
  /\ \E c \in clients :
       /\ sockets[c].readyState = "OPEN"
       /\ sockets[c].sent = 2
       /\ subscriptions[c] = <<Wildcard>>
       /\ Len(InboxOf(c)) = 3
       /\ InboxOf(c)[2].type = "full" /\ InboxOf(c)[2].re = 1
       /\ InboxOf(c)[3].type = "update" /\ InboxOf(c)[3].update.path = "nav.sog"


\* C35: a subscribe of a connected observer whose socket is open is answered:
\* the step sends it a full or an error for that message, or leaves a full
\* pending that the end of the fetch sends; a tree read that raises while the
\* snapshot is built is reported by one of the two.
C35_SubscribeAnswered ==
  [][(/\ last'.op = "message"
      /\ last'.msg.parses
      /\ last'.msg.type = "subscribe"
      /\ last'.client \in clients
      /\ sockets[last'.client].readyState = "OPEN")
       => LET c   == last'.client
              box == sockets'[c].inbox
          IN \/ /\ Len(box) = Len(sockets[c].inbox) + 1
                /\ box[Len(box)].type \in {"full", "error"}
                /\ box[Len(box)].re = last'.re
             \/ \E pf \in pendingFull' \ pendingFull :
                  pf.client = c /\ pf.re = last'.re]_vars


\* The path is among the records getHandlers lists.
ListsPath(p) == \E i \in 1..Len(getHandlers) : getHandlers[i].path = p
\* A capability the host gave for an installation that is still in place.
Usable(cap, p) ==
  /\ \E h \in hostPut : h.id = cap /\ h.path = p
  /\ \A i \in 1..Len(unregLog) : unregLog[i] # cap

\* C37: in every state and for every path, hasPutHandler, getHandler,
\* getHandlers and the boolean unregisterHandler would return agree on
\* whether the path is registered; the records and the capabilities are kept
\* for the same paths, once each, and every stored capability is usable.
C37_RegistryViewsAgree ==
  /\ \A p \in Paths :
       /\ hasPutHandler(p) <=> (getHandler(p) # <<>>)
       /\ hasPutHandler(p) <=> ListsPath(p)
       /\ hasPutHandler(p) <=> unregisterHandler(Mgr, p).ret
       /\ hasPutHandler(p) => getHandler(p)[1].path = p
  /\ MapKeys(handlers) = MapKeys(unregisterFunctions)
  /\ Cardinality(MapKeys(handlers)) = Len(handlers)
  /\ Cardinality(MapKeys(unregisterFunctions)) = Len(unregisterFunctions)
  /\ \A i \in 1..Len(unregisterFunctions) :
       Usable(unregisterFunctions[i].val, unregisterFunctions[i].key)

\* Two paths were registered and one of them has just been unregistered:
\* the four views say yes for the one and no for the other.
C37_Witness ==
  /\ last.op = "unregister"
  /\ last.out = "true"
  /\ \E p \in Paths \ {last.path} :
       /\ hasPutHandler(p)
       /\ ListsPath(p)
       /\ unregisterHandler(Mgr, p).ret
  /\ ~hasPutHandler(last.path)
  /\ ~ListsPath(last.path)
  /\ ~unregisterHandler(Mgr, last.path).ret

\* C38: a register whose installation the host refuses by raising raises to
\* its caller (POST /puts answers 500) and leaves the records, the
\* capabilities and the host's interceptors as they were; a register for a
\* path without a record always asks the host again: it raises or installs.
C38_InstallFailurePropagates ==
  [][/\ (last'.op \in {"register", "postPuts"} /\ last'.out \in {"threw", "500"})
          => /\ <<handlers, unregisterFunctions, hostPut, nextId, unregLog>>'
                  = <<handlers, unregisterFunctions, hostPut, nextId, unregLog>>
             /\ ~hasPutHandler(last'.path)
             /\ ~MapHas(handlers', last'.path)
     /\ (last'.op = "register" /\ ~hasPutHandler(last'.path))
          => \/ last'.out = "threw"
             \/ /\ last'.out = "void"
                /\ nextId' = nextId + 1
                /\ MapHas(handlers', last'.path)
                /\ \E h \in hostPut' : h.id = nextId' /\ h.path = last'.path
     /\ (last'.op = "postPuts" /\ last'.path # "" /\ ~hasPutHandler(last'.path))
          => \/ last'.out = "500"
             \/ /\ last'.out = "201"
                /\ nextId' = nextId + 1
                /\ MapHas(handlers', last'.path)]_vars

\* The host raised during a register for an unregistered path while another
\* path is registered: the call threw and the path has no record.
C38_Witness ==
  /\ last.op = "register"
  /\ last.out = "threw"
  /\ Unregistered(last.path)
  /\ \E q \in Paths \ {last.path} : Registered(q)


\* C31: a connecting observer starts with no subscriptions and is first sent
\* {type: 'full', paths: []}; as long as it has sent nothing it holds no
\* subscriptions and has been sent nothing else; its subscriptions stop
\* being empty only by a subscribe of its own, and it is sent an update only
\* while they are not empty.
C31_StartsEmptyAcknowledged ==
  /\ [](\A c \in 1..clientIdCounter :
          /\ Len(InboxOf(c)) >= 1
          /\ InboxOf(c)[1] = FullMsg(<<>>, 0)
          /\ sockets[c].sent = 0
               => /\ subscriptions[c] = <<>>
                  /\ InboxOf(c) = <<FullMsg(<<>>, 0)>>)
  /\ [][/\ last'.op = "connect"
             => /\ last'.client = clientIdCounter + 1
                /\ last'.client \in clients' \ clients
                /\ subscriptions'[last'.client] = <<>>
                /\ sockets'[last'.client].inbox = <<FullMsg(<<>>, 0)>>
        /\ \A c \in ClientIds :
             /\ (subscriptions[c] = <<>> /\ subscriptions'[c] # <<>>)
                  => /\ last'.op = "message"
                     /\ last'.client = c
                     /\ last'.msg.parses
                     /\ last'.msg.type = "subscribe"
             /\ UpdatesIn(sockets'[c].inbox) > UpdatesIn(sockets[c].inbox)
                  => subscriptions[c] # <<>>]_vars

\* Two observers are connected when nav.sog changes: the one that had
\* subscribed is sent the update, the one that has sent nothing still holds
\* the acknowledgement alone.
C31_Witness ==
  /\ last.op = "external"
  /\ last.event.path = "nav.sog"
  /\ events = 1
  /\ \E c, d \in clients :
       /\ c # d
       /\ sockets[c].readyState = "OPEN"
       /\ sockets[d].readyState = "OPEN"
       /\ sockets[c].sent = 0
       /\ subscriptions[c] = <<>>
       /\ InboxOf(c) = <<FullMsg(<<>>, 0)>>
       /\ UpdatesIn(InboxOf(d)) = 1


\* What handleDelta sends for the change event e.
InfoOf(e) ==
  [path |-> e.path, value |-> e.value, timestamp |-> e.timestamp,
   source |-> IF e.dsource # <<>> THEN e.dsource ELSE e.slabel]
Matches(c, p) == SetHas(subscriptions[c], p) \/ SetHas(subscriptions[c], Wildcard)

\* C32: when the tree changes, a connected observer whose subscriptions
\* match and whose socket is open is sent the update of that change, whatever
\* the state of the other observers' sockets; one whose socket is not open
\* is sent nothing; and an update is only ever sent in the step of the
\* change it reports, so a dropped one is not delivered later.
C32_DropForUnwritableOnly ==
  [][/\ (last'.op = "external" /\ events' = events + 1 /\ last'.event.path # "")
          => \A c \in clients :
               IF Matches(c, last'.event.path) /\ sockets[c].readyState = "OPEN"
                 THEN sockets'[c].inbox =
                        Append(sockets[c].inbox, UpdateMsg(InfoOf(last'.event), events'))
                 ELSE sockets'[c].inbox = sockets[c].inbox
     /\ \A c \in ClientIds :
          UpdatesIn(sockets'[c].inbox) # UpdatesIn(sockets[c].inbox)
            => /\ last'.op = "external"
               /\ events' = events + 1
               /\ sockets'[c].inbox[Len(sockets'[c].inbox)].ev = events']_vars

\* Two connected observers hold subscriptions matching nav.sog when it
\* changes; the socket of one is closing.  The other is sent the update, the
\* closing one is not.
C32_Witness ==
  /\ last.op = "external"
  /\ last.event.path = "nav.sog"
  /\ events = 1
  /\ \E c, d \in clients :
       /\ c < d
       /\ Matches(c, "nav.sog")
       /\ Matches(d, "nav.sog")
       /\ sockets[c].readyState = "CLOSING"
       /\ sockets[d].readyState = "OPEN"
       /\ UpdatesIn(InboxOf(c)) = 0
       /\ InboxOf(d)[Len(InboxOf(d))] = UpdateMsg(InfoOf(last.event), 1)


\* C33: the subscriptions of an observer change only in a step that handles
\* a subscribe, unsubscribe or unsubscribeAll sent by that observer; other
\* observers' messages, connects and disconnects, changes of the tree,
\* injections and interceptor operations leave them as they are.
C33_OnlyOwnMessagesChangeSubscriptions ==
  [][\A c \in ClientIds :
       subscriptions'[c] # subscriptions[c]
         => /\ last'.op = "message"
            /\ last'.client = c
            /\ last'.msg.parses
            /\ last'.msg.type \in {"subscribe", "unsubscribe", "unsubscribeAll"}]_vars

\* An observer holds the subscription it made while the other observer has
\* just sent unsubscribeAll.
C33_Witness ==
  /\ last.op = "message"
  /\ last.msg.type = "unsubscribeAll"
  /\ \E c \in clients \ {last.client} :
       /\ last.client \in clients
       /\ sockets[c].sent = 1
       /\ subscriptions[c] = <<"nav.sog">>
       /\ subscriptions[last.client] = <<>>


\* The targets whose path is the stream path.
StreamTargets == { wsPath, wsPath \o <<"?", "token=1">> }

\* C34: while the plugin runs, an upgrade request is made an observer exactly
\* when the path of its target is /plugins/signalk-whatif-helper/stream; a
\* request for any other target changes nothing; before the plugin
\* started and after it stopped no request is claimed.
C34_UpgradeClaimedByPath ==
  /\ [](stopped => upgradeHandler = "null" /\ clients = {})
  /\ [][/\ last'.op = "upgrade"
             => IF last'.url \in StreamTargets /\ ~stopped /\ wss = "open"
                  THEN /\ last'.out = "claimed"
                       /\ clientIdCounter' = clientIdCounter + 1
                       /\ clients' = clients \cup {clientIdCounter'}
                       /\ sockets'[clientIdCounter'].readyState = "OPEN"
                  ELSE /\ last'.out = "passed"
                       /\ <<wss, clients, clientIdCounter, subscriptions, sockets,
                            upgradeHandler, pendingFull>>'
                            = <<wss, clients, clientIdCounter, subscriptions, sockets,
                                upgradeHandler, pendingFull>>
        /\ clientIdCounter' # clientIdCounter
             => last'.op = "upgrade" /\ last'.url \in StreamTargets]_vars

\* While one observer is connected, a request for the stream path with a
\* trailing segment has been passed by.
C34_Witness ==
  /\ last.op = "upgrade"
  /\ last.url = wsPath \o <<"/extra">>
  /\ last.out = "passed"
  /\ ~stopped
  /\ upgradeHandler = "set"
  /\ clientIdCounter = 1
  /\ clients = {1}


\* The pieces of t between its dots.
SegmentsOf(t) ==
  LET cut == {0, Len(t) + 1} \cup {i \in 1..Len(t) : t[i] = "."}
      adjacent == {x \in cut \X cut :
                     x[1] < x[2] /\ ~\E k \in cut : x[1] < k /\ k < x[2]}
  IN { SubSeq(t, x[1] + 1, x[2] - 1) : x \in adjacent }
LetterChars == {"a", "e", "f", "g", "k", "l", "m", "n", "o", "p", "s", "t", "u",
                "v", "x", "E", "M", "P", "T"}
DigitChars == {"0", "1"}
\* Letter-led alphanumeric, or purely numeric.
GoodSegment(s) ==
  /\ Len(s) >= 1
  /\ \/ /\ s[1] \in LetterChars
        /\ \A i \in 1..Len(s) : s[i] \in LetterChars \cup DigitChars
     \/ \A i \in 1..Len(s) : s[i] \in DigitChars
\* A create request the claim says is rejected.
Malformed(path, value) ==
  \/ path = ""
  \/ value = Undefined
  \/ \E s \in SegmentsOf(Text(path)) : ~GoodSegment(s)

\* C36: POST /paths with a missing path, a missing value, or a path with a
\* segment that is neither letter-led alphanumeric nor purely numeric is
\* answered 400 and changes nothing: no path is created, no metadata is
\* stored, nothing is submitted to the bus, no interceptor is installed.
\* Any other request is not answered 400.
C36_MalformedCreateRejected ==
  [][last'.op \in {"postPaths", "postPathsPut"}
       => IF Malformed(last'.path, last'.value)
            THEN /\ last'.out = "400"
                 /\ <<handlers, unregisterFunctions, hostPut, nextId, unregLog,
                      bus, timers, calls, tree, treeMeta, appliedCall, writer,
                      createdPaths, createdBy, selfContext, resVars, now>>'
                      = <<handlers, unregisterFunctions, hostPut, nextId, unregLog,
                          bus, timers, calls, tree, treeMeta, appliedCall, writer,
                          createdPaths, createdBy, selfContext, resVars, now>>
                 /\ wsVars' = wsVars
            ELSE last'.out # "400"]_vars

\* After a path was created with metadata, a request for a path with a
\* segment that starts with a digit and goes on with letters has been
\* answered 400.
C36_Witness ==
  /\ last.op = "postPaths"
  /\ last.path = "nav.1og"
  /\ last.value = "v1"
  /\ last.out = "400"
  /\ createdPaths # <<>>
  /\ calls = 1


\* C40 as stated: a step of getScenario, updateScenario or deleteScenario
\* never writes over or removes a stored note that lacks
\* properties.whatIfScenario, and never puts a note under an id the store
\* holds nothing for.
C40_NeverTouchesUnmarked ==
  [][\A i \in NoteIds :
       (/\ last'.op \in {"getScenario", "updateScenario", "updateScenarioWrite",
                         "deleteScenario", "deleteScenarioRemove"}
        /\ notes'[i] # notes[i])
         => isOurNote(notes[i])]_vars

\* C40: for an id whose stored note lacks properties.whatIfScenario, or is
\* missing, when the operation reads it, getScenario gives null,
\* deleteScenario gives false and updateScenario throws; the read is the
\* operation's only store call and the store stays as it was.  A write or a
\* delete of the store is only ever made for an id the operation had read a
\* marked note under.
C40_GuardOnRead ==
  /\ [](pendingOp.kind # "none" => pendingOp.existing # <<>>)
  /\ [][/\ (/\ last'.op \in {"getScenario", "updateScenario", "deleteScenario"}
            /\ last'.storeCall # ""
            /\ ~isOurNote(notes[last'.id]))
             => /\ last'.out = CASE last'.op = "getScenario" -> "null"
                                 [] last'.op = "updateScenario" -> "threw"
                                 [] last'.op = "deleteScenario" -> "false"
                /\ last'.storeCall = "getResource"
                /\ last'.scenario = <<>>
                /\ notes' = notes
                /\ pendingOp' = pendingOp
        /\ last'.storeCall \in {"setResource", "deleteResource"}
             => \/ last'.op = "saveScenario"
                \/ /\ pendingOp.kind \in {"update", "delete"}
                   /\ pendingOp.id = last'.id
                   /\ pendingOp.existing # <<>>]_vars

\* deleteScenario was asked for an id under which the store holds another
\* user's note, while a scenario is stored under the other id: it gave
\* false after the read and both notes are where they were.
C40_Witness ==
  /\ last.op = "deleteScenario"
  /\ last.out = "false"
  /\ last.storeCall = "getResource"
  /\ notes[last.id] \in ForeignNotes
  /\ pendingOp = NoOp
  /\ \E j \in NoteIds \ {last.id} : isOurNote(notes[j])

====
